---------------------------- MODULE Spec2Model ----------------------------
(***************************************************************************)
(* State-machine model of the subtitle/mask editor:                        *)
(*   - src/App.tsx: the queue of video items, each with its current        *)
(*     subtitles and regions and its undo/redo history; the processing     *)
(*     pipeline; subtitle-file import;                                     *)
(*   - src/components/VideoWorkspace.tsx: the pointer-driven region        *)
(*     editor;                                                             *)
(*   - src/unnamed/part_000 (SubtitleEditor): subtitle removal.            *)
(*                                                                         *)
(* Coordinates are percentages of the frame in the source (real numbers).  *)
(* Here one unit is a quarter of a percent, so that the minimum-size       *)
(* threshold 0.5, the resize floor 1 and the frame width 100 are the       *)
(* integers 2, 4 and 400, and sizes strictly between the threshold and     *)
(* the floor exist.                                                        *)
(*                                                                         *)
(* One action is one event handler run to completion together with the     *)
(* re-render React performs before the next discrete event (click,         *)
(* mouse-down, mouse-up) is dispatched; a pointer-move handler computes    *)
(* the same regions whether or not a render separates two moves (a move    *)
(* reads only width/height, a resize only x/y of the region it changes).   *)
(* Continuations of async functions are separate actions that keep the     *)
(* values their closure captured.                                          *)
(***************************************************************************)
EXTENDS Integers, Sequences, FiniteSets, TLC

VARIABLES
    queue,          \* App: VideoQueueItem[] (status, subtitles, blurRegions, history, historyIndex)
    currentIndex,   \* App: index of the active item, -1 when none (0-based as in the source)
    isDrawing,      \* App: draw-mode flag
    errorMsg,       \* App: latest error message, "" when none
    crashed,        \* TRUE once a render has thrown (no error boundary: the tree is unmounted)
    startPos,       \* VideoWorkspace: draw anchor, Null or <<[x, y]>>
    currentDrag,    \* VideoWorkspace: in-progress rectangle, Null or <<region>>
    editingIdx,     \* VideoWorkspace: selected region index, Null or <<idx>> (0-based)
    editAction,     \* VideoWorkspace: "move", "resize" or "none"
    dragOffset,     \* VideoWorkspace: pointer-to-origin offset, Null or <<[x, y]>>
    pipes,          \* in-flight processVideo invocations (their captured values and position)
    srtPending,     \* in-flight handleSrtImport invocations: the currentIndex each captured
    g,              \* history-only: the last commit/undo/redo steps of one item (for the undo/redo laws)
    dragCommits,    \* history-only: Null, or <<n>>: snapshots appended by pointer-moves since the
                    \* pointer-down of the move/resize in progress (counted up to 2)
    resolved,       \* the latest subtitle lookup: Null, or <<[t, subs, live, export]>>
    exp,            \* the latest handleExport / exportVideo invocation and the video element it drives
    run,            \* the latest runAll invocation: its closure's queue, its loop index, its calls
    retry,          \* the latest withRetry invocation: its loop variable, its attempts, its outcome
    now,            \* the clock Date.now() reads, in milliseconds since the page was opened
    srt,            \* the latest generateSRT / parseSRT / generateSRT round trip: Null, or <<[entries, first, again]>>
    frame,          \* the latest composited export frame: Null, or <<[regions, subs, t, texts]>>
    cue             \* VideoWorkspace: activeAudio, audioCache and the Audio elements made so far

auxVars == <<resolved, exp, run, retry, now, srt, frame, cue>>

vars == <<queue, currentIndex, isDrawing, errorMsg, crashed, startPos, currentDrag,
          editingIdx, editAction, dragOffset, pipes, srtPending, g, dragCommits, auxVars>>

appVars == <<queue, currentIndex, isDrawing, errorMsg, crashed>>
editorVars == <<startPos, currentDrag, editingIdx, editAction, dragOffset>>

-----------------------------------------------------------------------------
(* Program constants (quarter-percent units for lengths). *)

Full == 400            \* 100 percent of the frame
MinSize == 2           \* 0.5 percent: a drawn rectangle must exceed it on both axes
ResizeFloor == 4       \* 1 percent: floor of a resized width/height
HistoryCap == 50       \* history length cap
FrameStep == 2         \* the 1/30 s a frame advances the video, in units of 1/60 s

(* JavaScript's NaN and undefined as they appear in a region's fields when *)
(* a pointer-move addresses an index that is not in the list.              *)
NaN == -9999
Undef == -9998

(* Bounds of the exploration. *)
MaxQueue == 1          \* items uploaded
MaxRegions == 1        \* regions per item
MaxCommits == 2        \* snapshots appended in Spec
MaxPipeCommits == 2    \* snapshots appended in SpecPipe
MaxRegionCommits == 4  \* snapshots appended in SpecRegions
MaxPipes == 1          \* processVideo invocations in flight
MaxImports == 1        \* handleSrtImport invocations in flight
MaxRunQueue == 3       \* items uploaded in SpecRunAll
MaxRetries == 3        \* largest maxRetries handed to withRetry
MaxNow == 1            \* clock ticks in SpecSubs
MaxSubs == 2           \* subtitles per item in SpecSubs
MaxSubCommits == 3     \* snapshots appended in SpecSubs
MaxBlocks == 1         \* blocks of an imported file, entries of an extraction, in SpecSubs
MaxSrtLen == 2         \* entries of a serialized list in SpecSrt
MaxRaceQueue == 2      \* items uploaded in SpecRace
MaxRacePipes == 2      \* processVideo invocations in flight in SpecRace
MaxRaceCommits == 2    \* snapshots appended in SpecRace
MaxEdgeCommits == 2    \* snapshots appended in SpecEdge
MaxFrameRegions == 3   \* regions of a frame in SpecFrame
MaxFrameSubs == 2      \* subtitles of a list in SpecFrame
MaxFrameTime == 3      \* latest video position in SpecFrame
MaxAudioLen == 2       \* subtitles of a list in SpecAudio
MaxAudioTime == 2      \* latest currentTime in SpecAudio
MaxElements == 3       \* Audio elements made in SpecAudio
ClipLength == 2        \* length of a voice clip in SpecAudio, in time units
MaxEditRegions == 2    \* regions per item in SpecEdit
MaxEditCommits == 3    \* snapshots appended in SpecEdit
MaxFiles == 1          \* files of one upload
MaxDuration == 4       \* longest video exported, in units of 1/60 s
MaxResolverLen == 3    \* subtitles of a list in SpecResolver
MaxResolverTime == 5   \* latest time looked up in SpecResolver

Null == <<>>
Some(v) == <<v>>

Pos(x, y) == [x |-> x, y |-> y]
Region(x, y, w, h) == [x |-> x, y |-> y, width |-> w, height |-> h]

(* Pointer positions used by Spec and SpecPipe: two opposite corners of    *)
(* the frame.                                                              *)
Pointers == { Pos(0, 0), Pos(400, 400) }

(* Pointer positions used by SpecRegions: the rectangle (10,80)-(40,95)    *)
(* percent, a point 0.5 percent right of its anchor, and points at and     *)
(* near the frame's corners.                                               *)
RegionPointers == { Pos(0, 0), Pos(2, 2), Pos(400, 400) }

(* Pointer positions used by SpecEdit: the corners of the rectangle        *)
(* (10,80)-(40,95) percent and the frame's bottom right corner.            *)
EditPointers == { Pos(40, 320), Pos(160, 380), Pos(400, 400) }

(* Pointer positions used by SpecEdge: 0.75 percent from the right and     *)
(* bottom edges, and the frame's bottom right corner.                      *)
EdgePointers == { Pos(397, 397), Pos(400, 400) }

(* Pointer positions used by SpecCap. *)
CapPointers == { Pos(40, 320), Pos(160, 380) }

Processing == {"EXTRACTING", "TRANSLATING", "GENERATING_VOICE", "EXPORTING"}

-----------------------------------------------------------------------------
(* Numbers as JavaScript computes them. *)

IsNum(v) == v # NaN /\ v # Undef
JsSub(a, b) == IF IsNum(a) /\ IsNum(b) THEN a - b ELSE NaN
MathMax(a, b) == IF IsNum(a) /\ IsNum(b) THEN (IF a >= b THEN a ELSE b) ELSE NaN
MathMin(a, b) == IF IsNum(a) /\ IsNum(b) THEN (IF a <= b THEN a ELSE b) ELSE NaN
MathAbs(a) == IF a < 0 THEN 0 - a ELSE a

(* Array.prototype.slice(0, n) *)
Slice(s, n) == SubSeq(s, 1, IF n > Len(s) THEN Len(s) ELSE IF n < 0 THEN 0 ELSE n)

-----------------------------------------------------------------------------
(* Subtitles. *)

Sub(id, o, t, a) ==
    [id |-> id, startTime |-> 0, endTime |-> 2, originalText |-> o,
     translatedText |-> t, audioUrl |-> a]

(* What parseSRT can hand to handleSrtImport: no entry, or entries with    *)
(* an empty translatedText and no audioUrl property.                       *)
ImportResults == { <<>>, <<Sub("srt-0", "o", "", "none")>> }

(* What extractSubtitlesFromVideo can return. *)
ExtractResults == { <<>>, <<Sub("sub-0", "o", "", "none")>> }

(* translateSubtitles: the remote result either names the subtitle's id    *)
(* (found) or not; without it the text falls back to the translated text,  *)
(* else to the original text.                                              *)
translateSubtitles(subs, found) ==
    [i \in DOMAIN subs |->
        [subs[i] EXCEPT !.translatedText =
            IF found THEN "t"
            ELSE IF subs[i].translatedText # "" THEN subs[i].translatedText
            ELSE subs[i].originalText]]

(* The voice loop of processVideo: every entry gets an audioUrl, "" when   *)
(* the text is empty or the response carries no audio.                     *)
finalizedSubs(subs, audio) ==
    [i \in DOMAIN subs |->
        [subs[i] EXCEPT !.audioUrl = IF subs[i].translatedText = "" THEN "" ELSE audio]]

(* SubtitleEditor.removeSub *)
removeSub(subs, id) == SelectSeq(subs, LAMBDA s : s.id # id)

-----------------------------------------------------------------------------
(* Queue items and their history. *)

HistoryState(subs, regs) == [subtitles |-> subs, blurRegions |-> regs]

NewItem ==
    [status |-> "IDLE", subtitles |-> <<>>, blurRegions |-> <<>>,
     history |-> <<HistoryState(<<>>, <<>>)>>, historyIndex |-> 0]

HasActive == currentIndex >= 0 /\ currentIndex < Len(queue)
activeVideo == queue[currentIndex + 1]

Pair(item) == HistoryState(item.subtitles, item.blurRegions)
AtCursor(item) == item.history[item.historyIndex + 1]

(* pushToHistory with `historyIndex: newHistory.length` read after the     *)
(* push instead of before it.                                              *)
pushToHistoryCursorPastEnd(item, subs, regs) ==
    LET sliced == Slice(item.history, item.historyIndex + 1)
        newHistory == IF Len(sliced) >= HistoryCap THEN Tail(sliced) ELSE sliced
    IN  [history |-> Append(newHistory, HistoryState(subs, regs)),
         historyIndex |-> Len(newHistory) + 1]

(* pushToHistory without the slice at the cursor. *)
pushToHistoryKeepsBranch(item, subs, regs) ==
    LET newHistory == IF Len(item.history) >= HistoryCap THEN Tail(item.history)
                      ELSE item.history
    IN  [history |-> Append(newHistory, HistoryState(subs, regs)),
         historyIndex |-> Len(newHistory)]

(* pushToHistory with the cap tested by > instead of >=. *)
pushToHistoryLateCap(item, subs, regs) ==
    LET sliced == Slice(item.history, item.historyIndex + 1)
        newHistory == IF Len(sliced) > HistoryCap THEN Tail(sliced) ELSE sliced
    IN  [history |-> Append(newHistory, HistoryState(subs, regs)),
         historyIndex |-> Len(newHistory)]

(* pushToHistory with pop() in place of shift(). *)
pushToHistoryEvictsNewest(item, subs, regs) ==
    LET sliced == Slice(item.history, item.historyIndex + 1)
        newHistory == IF Len(sliced) >= HistoryCap THEN SubSeq(sliced, 1, Len(sliced) - 1)
                      ELSE sliced
    IN  [history |-> Append(newHistory, HistoryState(subs, regs)),
         historyIndex |-> Len(newHistory)]

(* The history update inlined in updateActiveVideo (and in pushToHistory). *)
pushToHistory(item, subs, regs) ==
    LET sliced == Slice(item.history, item.historyIndex + 1)
        newHistory == IF Len(sliced) >= HistoryCap THEN Tail(sliced) ELSE sliced
    IN  [history |-> Append(newHistory, HistoryState(subs, regs)),
         historyIndex |-> Len(newHistory)]

(* updateActiveVideo's test without its JSON comparison. *)
ChangedAlways(item, updates) ==
    "subtitles" \in DOMAIN updates \/ "blurRegions" \in DOMAIN updates

(* updateActiveVideo's test `updates.subtitles || updates.blurRegions`     *)
(* (an array is truthy even when empty) and its JSON comparison.           *)
Changed(item, updates) ==
    /\ ("subtitles" \in DOMAIN updates \/ "blurRegions" \in DOMAIN updates)
    /\ LET subs == IF "subtitles" \in DOMAIN updates THEN updates.subtitles ELSE item.subtitles
           regs == IF "blurRegions" \in DOMAIN updates THEN updates.blurRegions ELSE item.blurRegions
       IN  subs # item.subtitles \/ regs # item.blurRegions

(* updateActiveVideo whose new regions are written into the array the    *)
(* snapshot at the cursor holds, before the new snapshot is appended.      *)
UpdatedItemWritesShared(item, updates) ==
    LET subs == IF "subtitles" \in DOMAIN updates THEN updates.subtitles ELSE item.subtitles
        regs == IF "blurRegions" \in DOMAIN updates THEN updates.blurRegions ELSE item.blurRegions
        stat == IF "status" \in DOMAIN updates THEN updates.status ELSE item.status
        shared == [item EXCEPT !.history[item.historyIndex + 1].blurRegions = regs]
        pushed == IF Changed(item, updates)
                  THEN pushToHistory(shared, subs, regs)
                  ELSE [history |-> item.history, historyIndex |-> item.historyIndex]
    IN  [status |-> stat, subtitles |-> subs, blurRegions |-> regs,
         history |-> pushed.history, historyIndex |-> pushed.historyIndex]

(* The updater of updateActiveVideo applied to one item. *)
UpdatedItem(item, updates) ==
    LET subs == IF "subtitles" \in DOMAIN updates THEN updates.subtitles ELSE item.subtitles
        regs == IF "blurRegions" \in DOMAIN updates THEN updates.blurRegions ELSE item.blurRegions
        stat == IF "status" \in DOMAIN updates THEN updates.status ELSE item.status
        pushed == IF Changed(item, updates)
                  THEN pushToHistory(item, subs, regs)
                  ELSE [history |-> item.history, historyIndex |-> item.historyIndex]
    IN  [status |-> stat, subtitles |-> subs, blurRegions |-> regs,
         history |-> pushed.history, historyIndex |-> pushed.historyIndex]

(* updateActiveVideo with the currentIndex its closure holds. *)
updateActiveVideo(index, updates) ==
    [i \in DOMAIN queue |-> IF i - 1 # index THEN queue[i] ELSE UpdatedItem(queue[i], updates)]

(* processVideo's updateStatus and its other setQueue calls: status and    *)
(* extra fields written to the item at `index`, the history untouched.     *)
SetStatus(q, index, updates) ==
    [i \in DOMAIN q |->
        IF i - 1 # index THEN q[i]
        ELSE [q[i] EXCEPT
                !.status = IF "status" \in DOMAIN updates THEN updates.status ELSE @,
                !.subtitles = IF "subtitles" \in DOMAIN updates THEN updates.subtitles ELSE @]]

updateStatus(index, updates) == SetStatus(queue, index, updates)

(* undo's updater restoring the regions of the snapshot but not its       *)
(* subtitles.                                                              *)
UndoItemRegionsOnly(item) ==
    LET newIdx == item.historyIndex - 1
        state == item.history[newIdx + 1]
    IN  [item EXCEPT !.historyIndex = newIdx, !.blurRegions = state.blurRegions]

(* redo's updater reading the snapshot before it moves the cursor. *)
RedoItemStaleSnapshot(item) ==
    LET newIdx == item.historyIndex + 1
        state == item.history[item.historyIndex + 1]
    IN  [item EXCEPT !.historyIndex = newIdx, !.subtitles = state.subtitles,
                     !.blurRegions = state.blurRegions]

(* The updater of undo / redo applied to one item. *)
UndoItem(item) ==
    LET newIdx == item.historyIndex - 1
        state == item.history[newIdx + 1]
    IN  [item EXCEPT !.historyIndex = newIdx, !.subtitles = state.subtitles,
                     !.blurRegions = state.blurRegions]

RedoItem(item) ==
    LET newIdx == item.historyIndex + 1
        state == item.history[newIdx + 1]
    IN  [item EXCEPT !.historyIndex = newIdx, !.subtitles = state.subtitles,
                     !.blurRegions = state.blurRegions]

-----------------------------------------------------------------------------
(* The region editor's pure parts. *)

(* getRelativeCoords is the identity on the pointer's percent position.    *)

EmptyRegion == Region(Undef, Undef, Undef, Undef)

(* The rectangle handleMouseMove records while drawing. *)
DragRect(start, coords) ==
    Region(MathMin(start.x, coords.x), MathMin(start.y, coords.y),
           MathAbs(coords.x - start.x), MathAbs(coords.y - start.y))

(* handleMouseMove's move branch without Math.max / Math.min. *)
MoveRegionUnclamped(region, offset, coords) ==
    [region EXCEPT !.x = coords.x - offset.x, !.y = coords.y - offset.y]

(* handleMouseMove's move branch with the pointer itself as the origin. *)
MoveRegionIgnoresOffset(region, offset, coords) ==
    [region EXCEPT
        !.x = MathMax(0, MathMin(JsSub(Full, region.width), coords.x)),
        !.y = MathMax(0, MathMin(JsSub(Full, region.height), coords.y))]

(* handleMouseMove's move branch for one region. *)
MoveRegion(region, offset, coords) ==
    [region EXCEPT
        !.x = MathMax(0, MathMin(JsSub(Full, region.width), coords.x - offset.x)),
        !.y = MathMax(0, MathMin(JsSub(Full, region.height), coords.y - offset.y))]

(* handleMouseMove's resize branch without Math.max(1, ...). *)
ResizeRegionNoFloor(region, coords) ==
    [region EXCEPT
        !.width = JsSub(coords.x, region.x),
        !.height = JsSub(coords.y, region.y)]

(* handleMouseMove's resize branch for one region. *)
ResizeRegion(region, coords) ==
    [region EXCEPT
        !.width = MathMax(ResizeFloor, JsSub(coords.x, region.x)),
        !.height = MathMax(ResizeFloor, JsSub(coords.y, region.y))]

(* next[regionIdx] = region: beyond the end the array gets holes, which    *)
(* are written here as regions without fields.                             *)
SetAt(regs, idx, region) ==
    IF idx + 1 <= Len(regs) THEN [regs EXCEPT ![idx + 1] = region]
    ELSE regs \o [i \in 1..(idx - Len(regs)) |-> EmptyRegion] \o <<region>>

(* The updater handleMouseMove passes to setBlurRegions. *)
EditedRegions(prev, regionIdx, moveAction, offset, coords) ==
    LET region == IF regionIdx + 1 <= Len(prev) THEN prev[regionIdx + 1] ELSE EmptyRegion
        edited == IF moveAction = "move" /\ offset # Null THEN MoveRegion(region, offset[1], coords)
                  ELSE IF moveAction = "resize" THEN ResizeRegion(region, coords)
                  ELSE region
    IN  SetAt(prev, regionIdx, edited)

(* handleMouseUp's size test with >= in place of >. *)
BigEnoughInclusive(rect) == rect.width >= MinSize /\ rect.height >= MinSize

(* handleMouseUp's size test on the drawn rectangle. *)
BigEnough(rect) == rect.width > MinSize /\ rect.height > MinSize

(* The updater of the delete button. *)
RemoveAt(prev, idx) == [i \in 1..(Len(prev) - 1) |-> IF i <= idx THEN prev[i] ELSE prev[i + 1]]

(* The full-screen progress overlay of App covers the whole interface      *)
(* while the active item is being processed or exported: no control is     *)
(* operated beneath it.                                                    *)
Overlay == HasActive /\ activeVideo.status \in Processing

-----------------------------------------------------------------------------
(* History-only bookkeeping. *)

GRec(ops, item, preSnap, prePair, preLen, preIdx) ==
    [ops |-> ops, item |-> item, preSnap |-> preSnap, prePair |-> prePair,
     preLen |-> preLen, preIdx |-> preIdx]

GNone == GRec(<<>>, -1, Null, Null, -1, -1)

ItemData(q, index) ==
    IF index >= 0 /\ index < Len(q)
    THEN <<q[index + 1].subtitles, q[index + 1].blurRegions, q[index + 1].history,
           q[index + 1].historyIndex>>
    ELSE <<>>

(* g after a step. `kind` is "commit" when the step ran updateActiveVideo  *)
(* on item `index` and its change test passed, "same" when the test        *)
(* failed, "undo"/"redo" when the step ran that updater, "other"           *)
(* otherwise. A commit records the snapshot at the cursor, the length of   *)
(* the history and the cursor it started from; an undo records the pair    *)
(* it replaces. g is dropped as soon as anything else changes the item it  *)
(* follows.                                                                *)
GhostStep(kind, index) ==
    g' = IF kind = "commit"
         THEN GRec(<<"commit">>, index, Some(AtCursor(queue[index + 1])), Null,
                   Len(queue[index + 1].history), queue[index + 1].historyIndex)
         ELSE IF kind = "same"
         THEN GRec(<<"same">>, index, Null, Null, -1, -1)
         ELSE IF kind = "undo"
         THEN IF g.item = index /\ g.ops = <<"commit">>
              THEN [g EXCEPT !.ops = <<"commit", "undo">>,
                             !.prePair = Some(Pair(queue[index + 1]))]
              ELSE GRec(<<"undo">>, index, Null, Some(Pair(queue[index + 1])), -1, -1)
         ELSE IF kind = "redo"
         THEN IF g.item = index /\ g.ops = <<"commit", "undo">>
              THEN [g EXCEPT !.ops = <<"commit", "undo", "redo">>]
              ELSE GRec(<<"redo">>, index, Null, Null, -1, -1)
         ELSE IF ItemData(queue', g.item) = ItemData(queue, g.item) THEN g ELSE GNone

(* The kind of a step that ran updateActiveVideo(index, updates). *)
UpdateKind(index, updates) ==
    IF index >= 0 /\ index < Len(queue)
    THEN IF Changed(queue[index + 1], updates) THEN "commit" ELSE "same"
    ELSE "other"

-----------------------------------------------------------------------------
(* VideoWorkspace: exportVideo. Times are in units of 1/60 s, so that a    *)
(* duration need not be a whole number of frame steps.                     *)

(* What exportVideo found when it was entered: the video element, whether *)
(* videoRef.current was set, whether getContext gave a context.            *)
Entered(video, ready, ctxOk) == [video |-> video, ready |-> ready, ctxOk |-> ctxOk]

(* No export yet. `before` is what exportVideo found when it was entered;  *)
(* `log` lists what the frames did, in order.                              *)
ExpIdle ==
    [phase |-> "idle", index |-> -1, before |-> Null, videoTime |-> 0, paused |-> FALSE,
     duration |-> 0, originalTime |-> 0, recorder |-> "none", stops |-> 0, log |-> <<>>]

(* renderFrame whose body leaves video.currentTime as it is. *)
renderFrameNoAdvance(e, regions, clamped) ==
    IF e.videoTime >= e.duration
    THEN [e EXCEPT !.phase = "stopping", !.recorder = "inactive", !.stops = @ + 1,
                   !.videoTime = e.originalTime]
    ELSE [e EXCEPT !.phase = "sleep",
                   !.log = @ \o <<[op |-> "draw", t |-> e.videoTime]>>
                             \o [i \in DOMAIN regions |-> [op |-> "overlay", t |-> e.videoTime]]
                             \o <<[op |-> "report", t |-> e.videoTime]>>]

(* renderFrame that stops the recorder and schedules itself again. *)
renderFrameKeepsGoing(e, regions, clamped) ==
    IF e.videoTime >= e.duration
    THEN [e EXCEPT !.phase = "raf", !.recorder = "inactive", !.stops = @ + 1,
                   !.videoTime = e.originalTime]
    ELSE [e EXCEPT !.phase = "sleep",
                   !.log = @ \o <<[op |-> "draw", t |-> e.videoTime]>>
                             \o [i \in DOMAIN regions |-> [op |-> "overlay", t |-> e.videoTime]]
                             \o <<[op |-> "report", t |-> e.videoTime]>>,
                   !.videoTime = IF clamped /\ e.videoTime + FrameStep > e.duration
                                 THEN e.duration ELSE e.videoTime + FrameStep]

(* renderFrame up to its await or its return. At or past the duration it   *)
(* stops the recorder and puts the position back. Otherwise it draws the   *)
(* video frame, overlays every region, reports the progress and advances   *)
(* video.currentTime by 1/30 s; a position set past the end reads back     *)
(* either as set or as the duration (`clamped`), depending on how far the  *)
(* seek has got.                                                           *)
renderFrame(e, regions, clamped) ==
    IF e.videoTime >= e.duration
    THEN [e EXCEPT !.phase = "stopping", !.recorder = "inactive", !.stops = @ + 1,
                   !.videoTime = e.originalTime]
    ELSE [e EXCEPT !.phase = "sleep",
                   !.log = @ \o <<[op |-> "draw", t |-> e.videoTime]>>
                             \o [i \in DOMAIN regions |-> [op |-> "overlay", t |-> e.videoTime]]
                             \o <<[op |-> "report", t |-> e.videoTime]>>,
                   !.videoTime = IF clamped /\ e.videoTime + FrameStep > e.duration
                                 THEN e.duration ELSE e.videoTime + FrameStep]

(* exportVideo that pauses and rewinds the video before its checks. *)
exportVideoChecksLate(index, ready, ctxOk, video, regions, clamped) ==
    IF ~ready \/ ~ctxOk
    THEN [ExpIdle EXCEPT !.phase = "failed", !.index = index, !.before = Some(Entered(video, ready, ctxOk)),
                         !.videoTime = 0, !.paused = TRUE, !.duration = video.duration]
    ELSE renderFrame([ExpIdle EXCEPT !.phase = "raf", !.index = index, !.before = Some(Entered(video, ready, ctxOk)),
                                     !.videoTime = 0, !.paused = TRUE,
                                     !.duration = video.duration,
                                     !.originalTime = video.currentTime,
                                     !.recorder = "recording"],
                     regions, clamped)

(* exportVideo up to the await of its first frame: the two checks, then    *)
(* the recorder, pause, rewind, recorder.start() and the first             *)
(* renderFrame() call. `video` is the element as the call finds it.        *)
exportVideo(index, ready, ctxOk, video, regions, clamped) ==
    IF ~ready \/ ~ctxOk
    THEN [ExpIdle EXCEPT !.phase = "failed", !.index = index, !.before = Some(Entered(video, ready, ctxOk)),
                         !.videoTime = video.currentTime, !.paused = video.paused,
                         !.duration = video.duration]
    ELSE renderFrame([ExpIdle EXCEPT !.phase = "raf", !.index = index, !.before = Some(Entered(video, ready, ctxOk)),
                                     !.videoTime = 0, !.paused = TRUE,
                                     !.duration = video.duration,
                                     !.originalTime = video.currentTime,
                                     !.recorder = "recording"],
                     regions, clamped)

(* The video element as an export can find it. *)
Videos ==
    { v \in [currentTime : 0..MaxDuration, duration : 0..MaxDuration, paused : BOOLEAN] :
        v.currentTime <= v.duration }

(* No runAll yet. `seen` is the queue of the render whose runAll runs, `i` *)
(* its loop variable, `processed` the indices it has called processVideo   *)
(* with.                                                                   *)
RunIdle == [phase |-> "idle", i |-> 0, seen |-> <<>>, processed |-> <<>>]

(* Subtitle ids. The three formats differ in their text, and each is    *)
(* one-to-one in the numbers it prints.                                    *)
ExtractedId(idx, clock) == <<"sub", idx, clock>>      \* `sub-${idx}-${Date.now()}`
ImportedId(index, clock) == <<"srt", index, clock>>   \* `srt-${index}-${Date.now()}`
AddedId(clock) == <<clock>>                            \* Date.now().toString()

(* parseSRT on a file whose blocks are well-formed or not: one entry per   *)
(* well-formed block, its id made of the block's index and the clock.      *)
parseSRT(blocks, clock) ==
    LET good == SelectSeq([i \in DOMAIN blocks |-> i - 1], LAMBDA index : blocks[index + 1])
    IN  [k \in DOMAIN good |-> Sub(ImportedId(good[k], clock), "o", "", "none")]

(* extractSubtitlesFromVideo's map over the n objects of the response *)
extractSubtitlesFromVideo(n, clock) ==
    [k \in 1..n |-> Sub(ExtractedId(k - 1, clock), "o", "", "none")]

(* Array.prototype.sort((a, b) => a.startTime - b.startTime): stable. *)
RECURSIVE SortByStart(_)
SortByStart(subs) ==
    IF subs = <<>> THEN <<>>
    ELSE LET sorted == SortByStart(SubSeq(subs, 1, Len(subs) - 1))
             x == subs[Len(subs)]
             k == Cardinality({i \in DOMAIN sorted : sorted[i].startTime <= x.startTime})
         IN  SubSeq(sorted, 1, k) \o <<x>> \o SubSeq(sorted, k + 1, Len(sorted))

(* SubtitleEditor.addSub's updater *)
addSub(prev, currentTime, clock) ==
    SortByStart(Append(prev, [Sub(AddedId(clock), "new", "new", "none")
                                 EXCEPT !.startTime = currentTime, !.endTime = currentTime + 2]))

(* SubtitleEditor.updateSub's updater *)
updateSub(prev, id, field, value) ==
    [i \in DOMAIN prev |-> IF prev[i].id = id THEN [prev[i] EXCEPT ![field] = value] ELSE prev[i]]

(* utils/srt. Times are in half milliseconds: a number t stands for the   *)
(* double nearest to t / 2000. A text is the sequence of its lines (what   *)
(* split('\n') gives), a line a sequence of the characters "a" and " ".    *)
(* The content of a file is the sequence of its lines; the index line and  *)
(* the time line of a block are one token each.                            *)

EmptyText == << <<>> >>

(* The times of the entries serialized in SpecSrt: 0 s, 0.5 s, 1.0015 s,   *)
(* 2 s. Parsing what they format to adds 1.001 s (2002).                   *)
SrtStarts == {0, 2003}
SrtEnds == {1000, 4000}

(* The doubles t among those for which Math.floor((t % 1) * 1000) in IEEE  *)
(* 754 arithmetic is one below the millisecond count of t: 1.001 % 1 is    *)
(* 0.000999999999999889..., and the product with 1000 is below 1.          *)
FloorsShort == {2002}

Stamp(h, m, s, ms) == [h |-> h, m |-> m, s |-> s, ms |-> ms]

(* formatTime: the four numbers it prints (padded to 2, 2, 2 and 3 digits) *)
formatTime(seconds) ==
    Stamp(seconds \div 7200000,
          (seconds % 7200000) \div 120000,
          (seconds % 120000) \div 2000,
          IF seconds \in FloorsShort THEN (seconds % 2000) \div 2 - 1 ELSE (seconds % 2000) \div 2)

(* timestampToSeconds: h * 3600 + m * 60 + s + Number(ms) / 1000 *)
timestampToSeconds(stamp) ==
    stamp.h * 7200000 + stamp.m * 120000 + stamp.s * 2000 + stamp.ms * 2

Line(kind, n, start, end, chars) ==
    [kind |-> kind, n |-> n, start |-> start, end |-> end, chars |-> chars]
IndexLine(n) == Line("index", n, Stamp(0, 0, 0, 0), Stamp(0, 0, 0, 0), <<>>)
TimeLine(start, end) == Line("time", 0, start, end, <<>>)
TextLine(chars) == Line("text", 0, Stamp(0, 0, 0, 0), Stamp(0, 0, 0, 0), chars)

(* a line \s* matches as a whole *)
IsBlank(line) == line.kind = "text" /\ \A i \in DOMAIN line.chars : line.chars[i] = " "

RECURSIVE Flatten(_)
Flatten(seqs) == IF seqs = <<>> THEN <<>> ELSE Head(seqs) \o Flatten(Tail(seqs))

(* generateSRT: per entry the lines of `${index + 1}\n${times}\n${text}\n`, *)
(* the text being translatedText unless it is empty; the trailing \n and   *)
(* the join('\n') leave an empty line after every entry.                   *)
generateSRT(entries) ==
    Flatten([index \in DOMAIN entries |->
        LET entry == entries[index]
            text == IF entry.translatedText # EmptyText THEN entry.translatedText
                    ELSE entry.originalText
        IN  <<IndexLine(index),
              TimeLine(formatTime(entry.startTime), formatTime(entry.endTime))>>
            \o [k \in DOMAIN text |-> TextLine(text[k])]
            \o <<TextLine(<<>>)>>])

RECURSIVE StripEnd(_)
StripEnd(chars) ==
    IF chars # <<>> /\ chars[Len(chars)] = " " THEN StripEnd(SubSeq(chars, 1, Len(chars) - 1))
    ELSE chars

RECURSIVE StripStart(_)
StripStart(chars) == IF chars # <<>> /\ Head(chars) = " " THEN StripStart(Tail(chars)) ELSE chars

RECURSIVE TrimEnd(_)
TrimEnd(lines) ==
    IF lines = <<>> THEN <<>>
    ELSE LET last == lines[Len(lines)]
             front == SubSeq(lines, 1, Len(lines) - 1)
         IN  IF IsBlank(last) THEN TrimEnd(front)
             ELSE Append(front, [last EXCEPT !.chars = StripEnd(@)])

RECURSIVE TrimStart(_)
TrimStart(lines) ==
    IF lines = <<>> THEN <<>>
    ELSE IF IsBlank(Head(lines)) THEN TrimStart(Tail(lines))
    ELSE <<[Head(lines) EXCEPT !.chars = StripStart(@)]>> \o Tail(lines)

(* content.trim() *)
Trim(lines) == TrimStart(TrimEnd(lines))

(* split(/\n\s*\n/): a run of blank lines between two lines separates two  *)
(* blocks. `block` is the block being collected.                           *)
RECURSIVE SplitBlocks(_, _)
SplitBlocks(lines, block) ==
    IF lines = <<>> THEN <<block>>
    ELSE IF IsBlank(Head(lines))
    THEN IF block = <<>> THEN SplitBlocks(Tail(lines), block)
         ELSE <<block>> \o SplitBlocks(Tail(lines), <<>>)
    ELSE SplitBlocks(Tail(lines), Append(block, Head(lines)))

(* lines.slice(2).join(' ') *)
RECURSIVE JoinLines(_)
JoinLines(lines) ==
    IF lines = <<>> THEN <<>>
    ELSE IF Len(lines) = 1 THEN lines[1].chars
    ELSE lines[1].chars \o <<" ">> \o JoinLines(Tail(lines))

(* parseSRT on the lines of a file: an entry for every block of at least  *)
(* three lines whose second line is a time line.                           *)
parseSRTContent(content, clock) ==
    LET blocks == SplitBlocks(Trim(content), <<>>)
        good == SelectSeq([i \in DOMAIN blocks |-> i - 1],
                          LAMBDA index : /\ Len(blocks[index + 1]) >= 3
                                         /\ blocks[index + 1][2].kind = "time")
    IN  [k \in DOMAIN good |->
            LET lines == blocks[good[k] + 1]
            IN  [id |-> ImportedId(good[k], clock),
                 startTime |-> timestampToSeconds(lines[2].start),
                 endTime |-> timestampToSeconds(lines[2].end),
                 originalText |-> <<JoinLines(SubSeq(lines, 3, Len(lines)))>>,
                 translatedText |-> EmptyText]]

(* The entries serialized in SpecSrt: a one-line text, an empty text, a    *)
(* two-line text (a textarea takes Enter), a translation or none.          *)
SrtEntries ==
    [id : {"s"}, startTime : SrtStarts, endTime : SrtEnds,
     originalText : {<< <<"a">> >>, EmptyText, << <<"a">>, <<"a">> >>},
     translatedText : {EmptyText, << <<"a", " ", "a">> >>}]

SrtLists == UNION { [1..n -> SrtEntries] : n \in 0..MaxSrtLen }

(* geminiService: withRetry. An error is what fn threw: the class of the  *)
(* failure, the status property of the thrown object (Undef when it has    *)
(* none), and whether its message contains '429' or 'quota'.               *)
Err(kind, status, has429, hasQuota) ==
    [kind |-> kind, status |-> status, has429 |-> has429, hasQuota |-> hasQuota]

(* Rate-limit errors of the service (status 429), server errors, a bad    *)
(* request, and the SyntaxError of JSON.parse on a malformed response,     *)
(* whose message quotes the position or the text it failed at.             *)
Errors ==
    { Err("rate", 429, m, q) : m \in BOOLEAN, q \in BOOLEAN }
    \cup { Err("server", st, FALSE, FALSE) : st \in {500, 503} }
    \cup { Err("bad request", 400, FALSE, FALSE) }
    \cup { Err("malformed", Undef, m, FALSE) : m \in BOOLEAN }

isRateLimit(error) == error.has429 \/ error.hasQuota \/ error.status = 429
isServerError(error) == error.status # Undef /\ error.status >= 500

RetryIdle ==
    [phase |-> "idle", maxRetries |-> 0, i |-> 0, attempts |-> 0, waits |-> 0,
     errors |-> <<>>, result |-> Null, thrown |-> Null]

(* withRetry whose loop test is i <= maxRetries. *)
AttemptOneMore(r) ==
    IF r.i <= r.maxRetries
    THEN [r EXCEPT !.phase = "calling", !.attempts = @ + 1]
    ELSE [r EXCEPT !.phase = "thrown",
                   !.thrown = IF r.errors = <<>> THEN Some(Undef) ELSE Some(r.errors[Len(r.errors)])]

(* The head of withRetry's loop: another call of fn while i < maxRetries,  *)
(* else throw lastError.                                                   *)
Attempt(r) ==
    IF r.i < r.maxRetries
    THEN [r EXCEPT !.phase = "calling", !.attempts = @ + 1]
    ELSE [r EXCEPT !.phase = "thrown",
                   !.thrown = IF r.errors = <<>> THEN Some(Undef) ELSE Some(r.errors[Len(r.errors)])]

(* withRetry's catch block *)
Caught(r, error) ==
    LET seen == [r EXCEPT !.errors = Append(@, error)]
    IN  IF isRateLimit(error) \/ isServerError(error)
        THEN [seen EXCEPT !.phase = "sleeping", !.waits = @ + 1]
        ELSE [seen EXCEPT !.phase = "thrown", !.thrown = Some(error)]

-----------------------------------------------------------------------------
(* Initial state: App and VideoWorkspace right after construction. *)

-----------------------------------------------------------------------------
(* VideoWorkspace: the audio cue effect (useEffect on activeSub and         *)
(* currentTime).  An Audio element is an entry of cue.elements and is     *)
(* referred to by its index; audioCache maps an audioUrl to an index.       *)

(* new Audio(url): a paused element at position 0. *)
Audio(url) == [src |-> url, paused |-> TRUE, currentTime |-> 0]

(* The refs after mount: useRef(null) and useRef(new Map()); no lookup has *)
(* been made.  event is the latest step ("update": a run of the effect,   *)
(* "plays": playback went on), sub the subtitle the latest run found,       *)
(* starts the play() calls since that subtitle became active.               *)
AudioIdle ==
    [activeAudio |-> Null, audioCache |-> <<>>, elements |-> <<>>,
     event |-> "none", sub |-> Null, starts |-> 0]

Init ==
    /\ queue = <<>>
    /\ currentIndex = -1
    /\ isDrawing = FALSE
    /\ errorMsg = ""
    /\ crashed = FALSE
    /\ startPos = Null
    /\ currentDrag = Null
    /\ editingIdx = Null
    /\ editAction = "none"
    /\ dragOffset = Null
    /\ pipes = <<>>
    /\ srtPending = <<>>
    /\ g = GNone
    /\ dragCommits = Null
    /\ resolved = Null
    /\ exp = ExpIdle
    /\ run = RunIdle
    /\ retry = RetryIdle
    /\ now = 0
    /\ srt = Null
    /\ cue = AudioIdle
    /\ frame = Null

-----------------------------------------------------------------------------
(* App: queue management. *)

(* handleFilesUpload with n files *)
handleFilesUpload(n) ==
    /\ ~crashed /\ ~Overlay
    /\ n > 0
    /\ queue' = queue \o [i \in 1..n |-> NewItem]
    /\ currentIndex' = IF currentIndex = -1 THEN 0 ELSE currentIndex
    /\ GhostStep("other", -1)
    /\ UNCHANGED <<isDrawing, errorMsg, crashed, editorVars, pipes, srtPending, dragCommits>>
    /\ UNCHANGED auxVars

(* click on a queue entry: setCurrentIndex(idx) *)
SelectItem(idx) ==
    /\ ~crashed /\ ~Overlay
    /\ idx >= 0 /\ idx < Len(queue)
    /\ currentIndex' = idx
    /\ UNCHANGED <<g, queue, isDrawing, errorMsg, crashed, editorVars, pipes, srtPending, dragCommits>>
    /\ UNCHANGED auxVars

(* the "clear all" button: setQueue([]). currentIndex is left as it is, so *)
(* the next render evaluates queue[currentIndex].status on undefined and   *)
(* throws.                                                                 *)
ClearAll ==
    /\ ~crashed /\ ~Overlay
    /\ queue' = <<>>
    /\ crashed' = (currentIndex >= 0)
    /\ GhostStep("other", -1)
    /\ UNCHANGED <<currentIndex, isDrawing, errorMsg, editorVars, pipes, srtPending, dragCommits>>
    /\ UNCHANGED auxVars

(* undo: it returns at once without an active item or with the cursor on *)
(* the first snapshot.                                                     *)
undo ==
    /\ ~crashed /\ ~Overlay
    /\ IF ~HasActive \/ activeVideo.historyIndex <= 0
       THEN UNCHANGED vars
       ELSE /\ queue' = [queue EXCEPT ![currentIndex + 1] = UndoItem(@)]
            /\ GhostStep("undo", currentIndex)
            /\ UNCHANGED <<currentIndex, isDrawing, errorMsg, crashed, editorVars, pipes,
                           srtPending, dragCommits>>
    /\ UNCHANGED auxVars

(* redo: it returns at once without an active item or with the cursor on *)
(* the last snapshot.                                                      *)
redo ==
    /\ ~crashed /\ ~Overlay
    /\ IF ~HasActive \/ activeVideo.historyIndex >= Len(activeVideo.history) - 1
       THEN UNCHANGED vars
       ELSE /\ queue' = [queue EXCEPT ![currentIndex + 1] = RedoItem(@)]
            /\ GhostStep("redo", currentIndex)
            /\ UNCHANGED <<currentIndex, isDrawing, errorMsg, crashed, editorVars, pipes,
                           srtPending, dragCommits>>
    /\ UNCHANGED auxVars

(* SubtitleEditor's remove button: setSubtitles(prev => prev.filter(..)),  *)
(* which App turns into updateActiveVideo({subtitles}).                    *)
RemoveSubClick(k) ==
    /\ ~crashed /\ HasActive /\ ~Overlay
    /\ k \in DOMAIN activeVideo.subtitles
    /\ LET updates == [subtitles |-> removeSub(activeVideo.subtitles, activeVideo.subtitles[k].id)]
       IN  /\ queue' = updateActiveVideo(currentIndex, updates)
           /\ GhostStep(UpdateKind(currentIndex, updates), currentIndex)
    /\ UNCHANGED <<currentIndex, isDrawing, errorMsg, crashed, editorVars, pipes, srtPending,
                   dragCommits>>
    /\ UNCHANGED auxVars

(* handleSrtImport up to its await: the closure keeps currentIndex. *)
SrtImportStart ==
    /\ ~crashed /\ HasActive /\ ~Overlay
    /\ srtPending' = Append(srtPending, currentIndex)
    /\ UNCHANGED <<g, appVars, editorVars, pipes, dragCommits>>
    /\ UNCHANGED auxVars

(* handleSrtImport after file.text(): parseSRT, then updateActiveVideo. *)
SrtImportDone(subs) ==
    /\ ~crashed
    /\ srtPending # <<>>
    /\ LET index == Head(srtPending)
           updates == [subtitles |-> subs]
       IN  /\ queue' = updateActiveVideo(index, updates)
           /\ GhostStep(UpdateKind(index, updates), index)
    /\ srtPending' = Tail(srtPending)
    /\ UNCHANGED <<currentIndex, isDrawing, errorMsg, crashed, editorVars, pipes, dragCommits>>
    /\ UNCHANGED auxVars

-----------------------------------------------------------------------------
(* VideoWorkspace: the region editor. It is mounted while there is an      *)
(* active item; its setBlurRegions prop applies the updater to the active  *)
(* item's regions and passes the result to updateActiveVideo.              *)

setBlurRegions(regions) == updateActiveVideo(currentIndex, [blurRegions |-> regions])

(* the draw-mode button: setEditingIdx(null); setIsDrawing(!isDrawing) *)
ToggleDraw ==
    /\ ~crashed /\ HasActive /\ ~Overlay
    /\ editingIdx' = Null
    /\ isDrawing' = ~isDrawing
    /\ UNCHANGED <<g, queue, currentIndex, errorMsg, crashed, startPos, currentDrag, editAction,
                   dragOffset, pipes, srtPending, dragCommits>>
    /\ UNCHANGED auxVars

(* handleMouseDown: reached when no region handler stopped the event,      *)
(* that is on the background, or anywhere in draw-mode.                    *)
handleMouseDown(coords) ==
    /\ ~crashed /\ HasActive /\ ~Overlay
    /\ editingIdx' = IF editingIdx # Null /\ ~isDrawing THEN Null ELSE editingIdx
    /\ startPos' = IF isDrawing THEN Some(coords) ELSE startPos
    /\ UNCHANGED <<g, appVars, currentDrag, editAction, dragOffset, pipes, srtPending, dragCommits>>
    /\ UNCHANGED auxVars

(* handleRegionMouseDown(idx): pointer-down on region idx or on one of its *)
(* buttons, outside draw-mode (in draw-mode it returns at once and the     *)
(* event reaches handleMouseDown).                                         *)
handleRegionMouseDown(idx, coords) ==
    /\ ~crashed /\ HasActive /\ ~Overlay
    /\ ~isDrawing
    /\ idx >= 0 /\ idx < Len(activeVideo.blurRegions)
    /\ LET region == activeVideo.blurRegions[idx + 1]
       IN  dragOffset' = Some(Pos(JsSub(coords.x, region.x), JsSub(coords.y, region.y)))
    /\ editingIdx' = Some(idx)
    /\ editAction' = "move"
    /\ dragCommits' = Some(0)
    /\ UNCHANGED <<g, appVars, startPos, currentDrag, pipes, srtPending>>
    /\ UNCHANGED auxVars

(* handleResizeMouseDown(idx): the handle exists on the selected region. *)
handleResizeMouseDown ==
    /\ ~crashed /\ HasActive /\ ~Overlay
    /\ editingIdx # Null
    /\ editingIdx[1] < Len(activeVideo.blurRegions)
    /\ editAction' = "resize"
    /\ dragCommits' = Some(0)
    /\ UNCHANGED <<g, appVars, startPos, currentDrag, editingIdx, dragOffset, pipes, srtPending>>
    /\ UNCHANGED auxVars

(* handleMouseMove *)
handleMouseMove(coords) ==
    /\ ~crashed /\ HasActive /\ ~Overlay
    /\ IF isDrawing /\ startPos # Null
       THEN /\ currentDrag' = Some(DragRect(startPos[1], coords))
            /\ UNCHANGED <<queue, g, dragCommits>>
       ELSE IF editingIdx # Null /\ editAction # "none"
       THEN LET next == EditedRegions(activeVideo.blurRegions, editingIdx[1], editAction,
                                      dragOffset, coords)
                kind == UpdateKind(currentIndex, [blurRegions |-> next])
            IN  /\ queue' = setBlurRegions(next)
                /\ GhostStep(kind, currentIndex)
                /\ dragCommits' = IF kind = "commit" /\ dragCommits # Null
                                  THEN Some(IF dragCommits[1] < 2 THEN dragCommits[1] + 1 ELSE 2)
                                  ELSE dragCommits
                /\ UNCHANGED currentDrag
       ELSE UNCHANGED <<queue, g, currentDrag, dragCommits>>
    /\ UNCHANGED <<currentIndex, isDrawing, errorMsg, crashed, startPos, editingIdx, editAction,
                   dragOffset, pipes, srtPending>>
    /\ UNCHANGED auxVars

(* handleMouseUp *)
handleMouseUp ==
    /\ ~crashed /\ HasActive /\ ~Overlay
    /\ IF isDrawing /\ currentDrag # Null
       THEN LET next == IF BigEnough(currentDrag[1])
                        THEN Append(activeVideo.blurRegions, currentDrag[1])
                        ELSE activeVideo.blurRegions
            IN  /\ queue' = IF BigEnough(currentDrag[1]) THEN setBlurRegions(next) ELSE queue
                /\ GhostStep(IF BigEnough(currentDrag[1])
                             THEN UpdateKind(currentIndex, [blurRegions |-> next])
                             ELSE "other", currentIndex)
                /\ currentDrag' = Null
                /\ startPos' = Null
                /\ isDrawing' = FALSE
       ELSE UNCHANGED <<queue, g, currentDrag, startPos, isDrawing>>
    /\ editAction' = "none"
    /\ dragOffset' = Null
    /\ dragCommits' = Null
    /\ UNCHANGED <<currentIndex, errorMsg, crashed, editingIdx, pipes, srtPending>>
    /\ UNCHANGED auxVars

(* the delete button of region idx *)
DeleteClick(idx) ==
    /\ ~crashed /\ HasActive /\ ~Overlay
    /\ idx >= 0 /\ idx < Len(activeVideo.blurRegions)
    /\ LET next == RemoveAt(activeVideo.blurRegions, idx)
       IN  /\ queue' = setBlurRegions(next)
           /\ GhostStep(UpdateKind(currentIndex, [blurRegions |-> next]), currentIndex)
    /\ editingIdx' = Null
    /\ UNCHANGED <<currentIndex, isDrawing, errorMsg, crashed, startPos, currentDrag, editAction,
                   dragOffset, pipes, srtPending, dragCommits>>
    /\ UNCHANGED auxVars

(* the confirm button of the selected region *)
ConfirmClick ==
    /\ ~crashed /\ HasActive /\ ~Overlay
    /\ editingIdx # Null
    /\ editingIdx[1] < Len(activeVideo.blurRegions)
    /\ editingIdx' = Null
    /\ UNCHANGED <<g, appVars, startPos, currentDrag, editAction, dragOffset, pipes, srtPending,
                   dragCommits>>
    /\ UNCHANGED auxVars

-----------------------------------------------------------------------------
(* App: processVideo(index), started by the button of the active item.     *)
(* A pipe is one invocation: the index and the item's subtitles it         *)
(* captured, the await it is suspended at, its local subtitle list, and    *)
(* its caller ("button" or "runAll").                                      *)

Pipe(index, captured, phase, subs, caller) ==
    [index |-> index, captured |-> captured, phase |-> phase, subs |-> subs, caller |-> caller]

DropPipe(k) == [i \in 1..(Len(pipes) - 1) |-> IF i < k THEN pipes[i] ELSE pipes[i + 1]]

(* The state processVideo and runAll write, as one record. *)
Here ==
    [queue |-> queue, pipes |-> pipes, errorMsg |-> errorMsg, currentIndex |-> currentIndex,
     isDrawing |-> isDrawing]

Becomes(st) ==
    /\ queue' = st.queue
    /\ pipes' = st.pipes
    /\ errorMsg' = st.errorMsg
    /\ currentIndex' = st.currentIndex
    /\ isDrawing' = st.isDrawing

(* processVideo that starts the pipeline without looking at the regions. *)
processVideoSkipsCheck(st, seen, index, caller) ==
    IF index >= Len(seen) THEN st
    ELSE [st EXCEPT !.queue = SetStatus(@, index, [status |-> "EXTRACTING"]),
                    !.pipes = Append(@, Pipe(index, seen[index + 1].subtitles, "extract", <<>>, caller))]

(* processVideo(index) up to its first await, applied to the state `st`.   *)
(* `seen` is the queue of the render whose closure runs: item is           *)
(* seen[index]. Without a region it sets the message, selects the item,    *)
(* turns drawing on and returns; otherwise it writes EXTRACTING and        *)
(* suspends at its first await.                                            *)
processVideo(st, seen, index, caller) ==
    IF index >= Len(seen) THEN st
    ELSE IF Len(seen[index + 1].blurRegions) = 0
    THEN [st EXCEPT !.errorMsg = "no region", !.currentIndex = index, !.isDrawing = TRUE]
    ELSE [st EXCEPT !.queue = SetStatus(@, index, [status |-> "EXTRACTING"]),
                    !.pipes = Append(@, Pipe(index, seen[index + 1].subtitles, "extract", <<>>, caller))]

(* the process button of the active item: processVideo(currentIndex) *)
ProcessClick ==
    /\ ~crashed /\ HasActive /\ ~Overlay
    /\ activeVideo.status \in {"IDLE", "ERROR", "COMPLETED"}
    /\ Becomes(processVideo(Here, queue, currentIndex, "button"))
    /\ GhostStep("other", -1)
    /\ UNCHANGED <<crashed, editorVars, srtPending, dragCommits>>
    /\ UNCHANGED auxVars

(* runAll that leaves its loop when a processVideo call returns without    *)
(* having started the pipeline.                                            *)
RECURSIVE runAllStopsAtRejection(_, _)
runAllStopsAtRejection(r, st) ==
    IF r.i >= Len(r.seen) THEN [run |-> [r EXCEPT !.phase = "done"], st |-> st]
    ELSE IF r.seen[r.i + 1].status \in {"IDLE", "ERROR"}
    THEN LET after == processVideo(st, r.seen, r.i, "runAll")
             called == [r EXCEPT !.processed = Append(@, r.i)]
         IN  IF Len(after.pipes) > Len(st.pipes)
             THEN [run |-> [called EXCEPT !.phase = "awaiting"], st |-> after]
             ELSE [run |-> [called EXCEPT !.phase = "done"], st |-> after]
    ELSE runAllStopsAtRejection([r EXCEPT !.i = @ + 1], st)

(* runAll's loop from r.i on, applied to the state `st`, up to the await   *)
(* of a processVideo call that suspended, or to the end of the loop. A     *)
(* call that returned at once (no region) resolves its promise, and the    *)
(* loop goes on in the same task.                                          *)
RECURSIVE runAll(_, _)
runAll(r, st) ==
    IF r.i >= Len(r.seen) THEN [run |-> [r EXCEPT !.phase = "done"], st |-> st]
    ELSE IF r.seen[r.i + 1].status \in {"IDLE", "ERROR"}
    THEN LET after == processVideo(st, r.seen, r.i, "runAll")
             called == [r EXCEPT !.processed = Append(@, r.i)]
         IN  IF Len(after.pipes) > Len(st.pipes)
             THEN [run |-> [called EXCEPT !.phase = "awaiting"], st |-> after]
             ELSE runAll([called EXCEPT !.i = @ + 1], after)
    ELSE runAll([r EXCEPT !.i = @ + 1], st)

(* the "run all" button: runAll() on the queue of the current render. The  *)
(* model follows one runAll at a time.                                     *)
RunAllClick ==
    /\ ~crashed /\ ~Overlay
    /\ Len(queue) > 0
    /\ run.phase # "awaiting"
    /\ LET next == runAll([RunIdle EXCEPT !.seen = queue], Here)
       IN  Becomes(next.st) /\ run' = next.run
    /\ GhostStep("other", -1)
    /\ UNCHANGED <<crashed, editorVars, srtPending, dragCommits, resolved, exp, retry, now, srt, cue, frame>>

(* processVideo returns to its caller with the state `st`: the promise of  *)
(* a call made by runAll resolves, and runAll's loop goes on.              *)
Returned(pipe, st) ==
    IF pipe.caller = "runAll" /\ run.phase = "awaiting"
    THEN LET next == runAll([run EXCEPT !.i = @ + 1], st)
         IN  Becomes(next.st) /\ run' = next.run
    ELSE Becomes(st) /\ UNCHANGED run

(* ... after fileToBase64 and, when the item had no subtitles, after       *)
(* extractSubtitlesFromVideo returned `extracted`                          *)
PipeExtracted(k, extracted) ==
    /\ ~crashed
    /\ k \in DOMAIN pipes /\ pipes[k].phase = "extract"
    /\ LET subs == IF Len(pipes[k].captured) > 0 THEN pipes[k].captured ELSE extracted
       IN  /\ queue' = updateStatus(pipes[k].index, [status |-> "TRANSLATING", subtitles |-> subs])
           /\ pipes' = [pipes EXCEPT ![k].phase = "translate", ![k].subs = subs]
    /\ GhostStep("other", -1)
    /\ UNCHANGED <<currentIndex, isDrawing, errorMsg, crashed, editorVars, srtPending, dragCommits>>
    /\ UNCHANGED auxVars

(* ... after translateSubtitles returned *)
PipeTranslated(k, found) ==
    /\ ~crashed
    /\ k \in DOMAIN pipes /\ pipes[k].phase = "translate"
    /\ LET translated == translateSubtitles(pipes[k].subs, found)
       IN  /\ queue' = updateStatus(pipes[k].index,
                                    [status |-> "GENERATING_VOICE", subtitles |-> translated])
           /\ pipes' = [pipes EXCEPT ![k].phase = "voice", ![k].subs = translated]
    /\ GhostStep("other", -1)
    /\ UNCHANGED <<currentIndex, isDrawing, errorMsg, crashed, editorVars, srtPending, dragCommits>>
    /\ UNCHANGED auxVars

(* ... after the voice loop: every generateVoiceover returned *)
PipeVoiced(k, audio) ==
    /\ ~crashed
    /\ k \in DOMAIN pipes /\ pipes[k].phase = "voice"
    /\ Returned(pipes[k],
                [Here EXCEPT !.queue = updateStatus(pipes[k].index,
                                 [status |-> "COMPLETED",
                                  subtitles |-> finalizedSubs(pipes[k].subs, audio)]),
                             !.pipes = DropPipe(k)])
    /\ GhostStep("other", -1)
    /\ UNCHANGED <<crashed, editorVars, srtPending, dragCommits, resolved, exp, retry, now, srt, cue, frame>>

(* ... the catch block: one of the awaited calls threw *)
PipeFailed(k) ==
    /\ ~crashed
    /\ k \in DOMAIN pipes
    /\ Returned(pipes[k],
                [Here EXCEPT !.queue = updateStatus(pipes[k].index, [status |-> "ERROR"]),
                             !.errorMsg = "remote error",
                             !.pipes = DropPipe(k)])
    /\ GhostStep("other", -1)
    /\ UNCHANGED <<crashed, editorVars, srtPending, dragCommits, resolved, exp, retry, now, srt, cue, frame>>

-----------------------------------------------------------------------------
(* App: handleExport, started by the export button of a completed item,    *)
(* and the callbacks of the export it awaits.                              *)

(* handleExport up to its await: the status write, then exportVideo up to  *)
(* the await of its first frame (or its throw, which handleExport does     *)
(* not catch).                                                             *)
handleExport(ready, ctxOk, video, clamped) ==
    /\ ~crashed /\ HasActive /\ ~Overlay
    /\ activeVideo.status = "COMPLETED"
    /\ queue' = updateActiveVideo(currentIndex, [status |-> "EXPORTING"])
    /\ exp' = exportVideo(currentIndex, ready, ctxOk, video, activeVideo.blurRegions, clamped)
    /\ GhostStep("other", -1)
    /\ UNCHANGED <<currentIndex, isDrawing, errorMsg, crashed, editorVars, pipes, srtPending,
                   dragCommits, resolved, run, retry, now, srt, cue, frame>>

(* the setTimeout(r, 10) of renderFrame fires: requestAnimationFrame *)
ExportTimer ==
    /\ exp.phase = "sleep"
    /\ exp' = [exp EXCEPT !.phase = "raf"]
    /\ UNCHANGED <<queue, currentIndex, isDrawing, errorMsg, crashed, editorVars, pipes,
                   srtPending, g, dragCommits, resolved, run, retry, now, srt, cue, frame>>

(* the animation frame callback: renderFrame *)
ExportFrame(clamped) ==
    /\ exp.phase = "raf"
    /\ exp' = renderFrame(exp, IF exp.index < Len(queue) THEN queue[exp.index + 1].blurRegions
                               ELSE <<>>, clamped)
    /\ UNCHANGED <<queue, currentIndex, isDrawing, errorMsg, crashed, editorVars, pipes,
                   srtPending, g, dragCommits, resolved, run, retry, now, srt, cue, frame>>

(* the recorder's stop event: onstop resolves the promise with the Blob,   *)
(* and handleExport goes on to the download and the status write.          *)
ExportStopped ==
    /\ ~crashed
    /\ exp.phase = "stopping"
    /\ exp' = [exp EXCEPT !.phase = "done"]
    /\ queue' = updateActiveVideo(exp.index, [status |-> "COMPLETED"])
    /\ GhostStep("other", -1)
    /\ UNCHANGED <<currentIndex, isDrawing, errorMsg, crashed, editorVars, pipes, srtPending,
                   dragCommits, resolved, run, retry, now, srt, cue, frame>>

-----------------------------------------------------------------------------
(* geminiService: withRetry(fn, maxRetries) and the settling of the calls  *)
(* and of the sleep it awaits.                                             *)

withRetry(maxRetries) ==
    /\ retry.phase \in {"idle", "returned", "thrown"}
    /\ retry' = Attempt([RetryIdle EXCEPT !.maxRetries = maxRetries])
    /\ UNCHANGED <<queue, currentIndex, isDrawing, errorMsg, crashed, editorVars, pipes,
                   srtPending, g, dragCommits, resolved, exp, run, now, srt, cue, frame>>

(* fn() resolved: return await fn() *)
FnReturned(value) ==
    /\ retry.phase = "calling"
    /\ retry' = [retry EXCEPT !.phase = "returned", !.result = Some(value)]
    /\ UNCHANGED <<queue, currentIndex, isDrawing, errorMsg, crashed, editorVars, pipes,
                   srtPending, g, dragCommits, resolved, exp, run, now, srt, cue, frame>>

(* fn() rejected with `error` *)
FnThrew(error) ==
    /\ retry.phase = "calling"
    /\ retry' = Caught(retry, error)
    /\ UNCHANGED <<queue, currentIndex, isDrawing, errorMsg, crashed, editorVars, pipes,
                   srtPending, g, dragCommits, resolved, exp, run, now, srt, cue, frame>>

(* sleep(waitTime) is over: continue *)
SleepOver ==
    /\ retry.phase = "sleeping"
    /\ retry' = Attempt([retry EXCEPT !.i = @ + 1])
    /\ UNCHANGED <<queue, currentIndex, isDrawing, errorMsg, crashed, editorVars, pipes,
                   srtPending, g, dragCommits, resolved, exp, run, now, srt, cue, frame>>

-----------------------------------------------------------------------------
(* SubtitleEditor: the add button and the inputs of an entry; the clock.   *)

(* the add button: addSub, with the currentTime prop *)
AddSubClick(currentTime) ==
    /\ ~crashed /\ HasActive /\ ~Overlay
    /\ LET updates == [subtitles |-> addSub(activeVideo.subtitles, currentTime, now)]
       IN  /\ queue' = updateActiveVideo(currentIndex, updates)
           /\ GhostStep(UpdateKind(currentIndex, updates), currentIndex)
    /\ UNCHANGED <<currentIndex, isDrawing, errorMsg, crashed, editorVars, pipes, srtPending,
                   dragCommits>>
    /\ UNCHANGED auxVars

(* an input of the k-th entry changes: updateSub(sub.id, field, value) *)
UpdateSubInput(k, field, value) ==
    /\ ~crashed /\ HasActive /\ ~Overlay
    /\ k \in DOMAIN activeVideo.subtitles
    /\ LET updates == [subtitles |-> updateSub(activeVideo.subtitles, activeVideo.subtitles[k].id,
                                                field, value)]
       IN  /\ queue' = updateActiveVideo(currentIndex, updates)
           /\ GhostStep(UpdateKind(currentIndex, updates), currentIndex)
    /\ UNCHANGED <<currentIndex, isDrawing, errorMsg, crashed, editorVars, pipes, srtPending,
                   dragCommits>>
    /\ UNCHANGED auxVars

(* a millisecond passes *)
Tick ==
    /\ now < MaxNow
    /\ now' = now + 1
    /\ UNCHANGED <<queue, currentIndex, isDrawing, errorMsg, crashed, editorVars, pipes,
                   srtPending, g, dragCommits, resolved, exp, run, retry, srt, cue, frame>>

-----------------------------------------------------------------------------
(* utils/srt: a list is serialized, the result parsed and serialized again. *)

RoundTrip(entries) ==
    /\ srt' = Some([entries |-> entries,
                    first |-> generateSRT(entries),
                    again |-> generateSRT(parseSRTContent(generateSRT(entries), now))])
    /\ UNCHANGED <<queue, currentIndex, isDrawing, errorMsg, crashed, editorVars, pipes,
                   srtPending, g, dragCommits, resolved, exp, run, retry, now, cue, frame>>

-----------------------------------------------------------------------------
(* Specifications. *)

(* Snapshots that the histories of q hold beyond their initial one. *)
RECURSIVE Appended(_)
Appended(q) == IF q = <<>> THEN 0 ELSE (Len(Head(q).history) - 1) + Appended(Tail(q))

(* The bounds of an exploration, put on the state a step leads to. *)
Within(maxQueue, maxCommits, maxRegions) ==
    /\ Len(queue) <= maxQueue
    /\ Len(pipes) <= MaxPipes
    /\ Len(srtPending) <= MaxImports
    /\ Appended(queue) <= maxCommits
    /\ \A i \in DOMAIN queue : Len(queue[i].blurRegions) <= maxRegions

(* The steps of the queue, the history and the subtitle list. *)
AppStep(maxQueue, maxCommits, maxRegions) ==
    \/ \E n \in 1..MaxFiles : handleFilesUpload(n) /\ Within(maxQueue, maxCommits, maxRegions)'
    \/ \E idx \in 0..(MaxQueue - 1) : SelectItem(idx)
    \/ ClearAll
    \/ undo
    \/ redo
    \/ \E k \in 1..1 : RemoveSubClick(k)
    \/ SrtImportStart /\ Within(maxQueue, maxCommits, maxRegions)'
    \/ \E subs \in ImportResults : SrtImportDone(subs) /\ Within(maxQueue, maxCommits, maxRegions)'

(* The steps of the region editor, pointer positions drawn from           *)
(* `pointers`.                                                             *)
EditorStep(pointers, maxQueue, maxCommits, maxRegions) ==
    \/ ToggleDraw
    \/ \E p \in pointers : handleMouseDown(p)
    \/ \E idx \in 0..(MaxRegions - 1) : \E p \in pointers : handleRegionMouseDown(idx, p)
    \/ handleResizeMouseDown
    \/ \E p \in pointers : handleMouseMove(p) /\ Within(maxQueue, maxCommits, maxRegions)'
    \/ handleMouseUp /\ Within(maxQueue, maxCommits, maxRegions)'
    \/ \E idx \in 0..(MaxRegions - 1) : DeleteClick(idx) /\ Within(maxQueue, maxCommits, maxRegions)'
    \/ ConfirmClick

(* The steps of processVideo. *)
PipeStep(maxQueue, maxCommits, maxRegions) ==
    \/ ProcessClick /\ Within(maxQueue, maxCommits, maxRegions)'
    \/ \E k \in 1..MaxPipes : \E extracted \in ExtractResults : PipeExtracted(k, extracted)
    \/ \E k \in 1..MaxPipes : \E found \in BOOLEAN : PipeTranslated(k, found)
    \/ \E k \in 1..MaxPipes : \E audio \in {"", "wav"} : PipeVoiced(k, audio)
    \/ \E k \in 1..MaxPipes : PipeFailed(k)

(* Spec: queue, history, subtitle list and region editor. *)
Next ==
    \/ AppStep(MaxQueue, MaxCommits, MaxRegions)
    \/ EditorStep(Pointers, MaxQueue, MaxCommits, MaxRegions)

Spec == Init /\ [][Next]_vars

(* SpecPipe: the queue, the history, the subtitle list, the drawing and    *)
(* the removal of regions, and the processing pipeline.                    *)
NextPipe ==
    \/ AppStep(MaxQueue, MaxPipeCommits, MaxRegions)
    \/ ToggleDraw
    \/ \E p \in Pointers : handleMouseDown(p)
    \/ \E p \in Pointers : handleMouseMove(p)
    \/ handleMouseUp /\ Within(MaxQueue, MaxPipeCommits, MaxRegions)'
    \/ \E idx \in 0..(MaxRegions - 1) : DeleteClick(idx) /\ Within(MaxQueue, MaxPipeCommits, MaxRegions)'
    \/ PipeStep(MaxQueue, MaxPipeCommits, MaxRegions)

SpecPipe == Init /\ [][NextPipe]_vars

(* SpecRunAll: several items, the drawing of regions, the process button   *)
(* and the "run all" button.                                               *)
NextRunAll ==
    \/ handleFilesUpload(MaxRunQueue) /\ Within(MaxRunQueue, 2, MaxRegions)'
    \/ \E idx \in 0..(MaxRunQueue - 1) : SelectItem(idx)
    \/ ToggleDraw
    \/ handleMouseDown(Pos(40, 320))
    \/ handleMouseMove(Pos(160, 380))
    \/ handleMouseUp /\ Within(MaxRunQueue, 2, MaxRegions)'
    \/ RunAllClick /\ Within(MaxRunQueue, 2, MaxRegions)'
    \/ ProcessClick /\ Within(MaxRunQueue, 2, MaxRegions)'
    \/ \E k \in 1..MaxPipes : PipeExtracted(k, <<Sub("sub-0", "o", "", "none")>>)
    \/ \E k \in 1..MaxPipes : PipeTranslated(k, TRUE)
    \/ \E k \in 1..MaxPipes : PipeVoiced(k, "wav")
    \/ \E k \in 1..MaxPipes : PipeFailed(k)

SpecRunAll == Init /\ [][NextRunAll]_vars

(* SpecRace: two items, the drawing of regions, the process button and    *)
(* the "run all" button, with two processVideo invocations in flight.       *)
WithinRace ==
    /\ Len(queue) <= MaxRaceQueue
    /\ Len(pipes) <= MaxRacePipes
    /\ Appended(queue) <= MaxRaceCommits
    /\ \A i \in DOMAIN queue : Len(queue[i].blurRegions) <= MaxRegions

NextRace ==
    \/ handleFilesUpload(MaxRaceQueue) /\ WithinRace'
    \/ \E idx \in 0..(MaxRaceQueue - 1) : SelectItem(idx)
    \/ ToggleDraw
    \/ handleMouseDown(Pos(40, 320))
    \/ handleMouseMove(Pos(160, 380))
    \/ handleMouseUp /\ WithinRace'
    \/ RunAllClick /\ WithinRace'
    \/ ProcessClick /\ WithinRace'
    \/ \E k \in 1..MaxRacePipes : PipeExtracted(k, <<Sub("sub-0", "o", "", "none")>>)
    \/ \E k \in 1..MaxRacePipes : PipeTranslated(k, TRUE)
    \/ \E k \in 1..MaxRacePipes : PipeVoiced(k, "wav") /\ WithinRace'
    \/ \E k \in 1..MaxRacePipes : PipeFailed(k) /\ WithinRace'

SpecRace == Init /\ [][NextRace]_vars

(* SpecSubs: one item's subtitle list under import, extraction, manual    *)
(* add, edit and remove, with the clock the ids are made of.               *)
WithinSubs ==
    /\ Within(MaxQueue, MaxSubCommits, MaxRegions)
    /\ \A i \in DOMAIN queue : Len(queue[i].subtitles) <= MaxSubs

NextSubs ==
    \/ handleFilesUpload(1) /\ WithinSubs'
    \/ Tick
    \/ \E currentTime \in {0, 1} : AddSubClick(currentTime) /\ WithinSubs'
    \/ \E k \in 1..MaxSubs : UpdateSubInput(k, "startTime", 1) /\ WithinSubs'
    \/ \E k \in 1..MaxSubs : RemoveSubClick(k) /\ WithinSubs'
    \/ SrtImportStart /\ WithinSubs'
    \/ \E blocks \in UNION { [1..n -> BOOLEAN] : n \in 0..MaxBlocks } :
           SrtImportDone(parseSRT(blocks, now)) /\ WithinSubs'
    \/ ToggleDraw
    \/ handleMouseDown(Pos(40, 320))
    \/ handleMouseMove(Pos(160, 380))
    \/ handleMouseUp /\ WithinSubs'
    \/ ProcessClick /\ WithinSubs'
    \/ \E k \in 1..MaxPipes : \E n \in 0..MaxBlocks :
           PipeExtracted(k, extractSubtitlesFromVideo(n, now))
    \/ \E k \in 1..MaxPipes : PipeTranslated(k, TRUE)
    \/ \E k \in 1..MaxPipes : PipeVoiced(k, "wav")
    \/ \E k \in 1..MaxPipes : PipeFailed(k)

SpecSubs == Init /\ [][NextSubs]_vars

(* SpecEdit: one item with up to two regions, drawn, moved and resized. *)
NextEdit ==
    \/ handleFilesUpload(1) /\ Within(MaxQueue, MaxEditCommits, MaxEditRegions)'
    \/ ToggleDraw
    \/ \E p \in EditPointers : handleMouseDown(p)
    \/ \E idx \in 0..(MaxEditRegions - 1) : \E p \in EditPointers : handleRegionMouseDown(idx, p)
    \/ handleResizeMouseDown
    \/ \E p \in EditPointers :
           handleMouseMove(p) /\ Within(MaxQueue, MaxEditCommits, MaxEditRegions)'
    \/ handleMouseUp /\ Within(MaxQueue, MaxEditCommits, MaxEditRegions)'

SpecEdit == Init /\ [][NextEdit]_vars

(* SpecEdge: one item with one region drawn, moved, resized and removed    *)
(* next to the frame's right and bottom edges.                              *)
NextEdge ==
    \/ handleFilesUpload(1) /\ Within(MaxQueue, MaxEdgeCommits, MaxRegions)'
    \/ EditorStep(EdgePointers, MaxQueue, MaxEdgeCommits, MaxRegions)

SpecEdge == Init /\ [][NextEdge]_vars

(* SpecSrt: generateSRT and parseSRT alone. *)
NextSrt == \E entries \in SrtLists : RoundTrip(entries)

SpecSrt == Init /\ [][NextSrt]_vars

(* SpecRetry: withRetry alone. *)
NextRetry ==
    \/ \E maxRetries \in 1..MaxRetries : withRetry(maxRetries)
    \/ \E value \in {"r1", "r2"} : FnReturned(value)
    \/ \E error \in Errors : FnThrew(error)
    \/ SleepOver

SpecRetry == Init /\ [][NextRetry]_vars

(* SpecRegions: the region gestures alone (draw, move, resize, remove) on  *)
(* one item, on a finer set of pointer positions.                          *)
NextRegions ==
    \/ handleFilesUpload(1) /\ Within(MaxQueue, MaxRegionCommits, MaxRegions)'
    \/ EditorStep(RegionPointers, MaxQueue, MaxRegionCommits, MaxRegions)

SpecRegions == Init /\ [][NextRegions]_vars

(* SpecCap: one item whose single region is drawn and removed over and     *)
(* over, with undo and redo, until the history reaches its cap and         *)
(* beyond.                                                                 *)
NextCap ==
    \/ handleFilesUpload(1) /\ Within(MaxQueue, HistoryCap + 1, MaxRegions)'
    \/ undo
    \/ redo
    \/ ToggleDraw
    \/ \E p \in CapPointers : handleMouseDown(p)
    \/ \E p \in CapPointers : handleMouseMove(p)
    \/ handleMouseUp /\ Within(MaxQueue, HistoryCap + 1, MaxRegions)'
    \/ DeleteClick(0) /\ Within(MaxQueue, HistoryCap + 1, MaxRegions)'

SpecCap == Init /\ [][NextCap]_vars

(* SpecExport: one item is given a region and processed, and from then on  *)
(* exported over and over.                                                 *)
ExportStep ==
    \/ \E ready \in BOOLEAN : \E ctxOk \in BOOLEAN : \E video \in Videos : \E clamped \in BOOLEAN :
          handleExport(ready, ctxOk, video, clamped)
    \/ ExportTimer
    \/ \E clamped \in BOOLEAN : ExportFrame(clamped)
    \/ ExportStopped

NextExport ==
    \/ handleFilesUpload(1) /\ Within(MaxQueue, 1, MaxRegions)'
    \/ ToggleDraw
    \/ \E p \in CapPointers : handleMouseDown(p)
    \/ \E p \in CapPointers : handleMouseMove(p)
    \/ handleMouseUp /\ Within(MaxQueue, 1, MaxRegions)'
    \/ PipeStep(MaxQueue, 1, MaxRegions) /\ exp = ExpIdle
    \/ ExportStep

SpecExport == Init /\ [][NextExport]_vars

(* SpecExportFair: SpecExport with every timer, animation frame and        *)
(* recorder event of an export eventually delivered.                       *)
SpecExportFair ==
    /\ SpecExport
    /\ WF_vars(ExportTimer)
    /\ WF_vars(\E clamped \in BOOLEAN : ExportFrame(clamped))
    /\ WF_vars(ExportStopped)

-----------------------------------------------------------------------------
(* VideoWorkspace: the subtitle shown at a time. The live view looks it    *)
(* up at the currentTime prop, exportVideo's renderFrame at                *)
(* video.currentTime.                                                      *)

TimedSub(id, startTime, endTime) ==
    [Sub(id, "o", "", "none") EXCEPT !.startTime = startTime, !.endTime = endTime]

(* Array.prototype.find with the live view's predicate but the end of the *)
(* interval left out.                                                      *)
RECURSIVE activeSubHalfOpen(_, _)
activeSubHalfOpen(subtitles, currentTime) ==
    IF subtitles = <<>> THEN Null
    ELSE IF currentTime >= Head(subtitles).startTime /\ currentTime < Head(subtitles).endTime
         THEN Some(Head(subtitles))
         ELSE activeSubHalfOpen(Tail(subtitles), currentTime)

(* subtitles.find(s => currentTime >= s.startTime && currentTime <=       *)
(* s.endTime): the elements are tried in list order; Null stands for       *)
(* undefined.                                                              *)
RECURSIVE activeSub(_, _)
activeSub(subtitles, currentTime) ==
    IF subtitles = <<>> THEN Null
    ELSE IF currentTime >= Head(subtitles).startTime /\ currentTime <= Head(subtitles).endTime
         THEN Some(Head(subtitles))
         ELSE activeSub(Tail(subtitles), currentTime)

(* subtitles.find(s => video.currentTime >= s.startTime &&                *)
(* video.currentTime <= s.endTime) of renderFrame.                         *)
RECURSIVE currentSub(_, _)
currentSub(subtitles, videoTime) ==
    IF subtitles = <<>> THEN Null
    ELSE IF videoTime >= Head(subtitles).startTime /\ videoTime <= Head(subtitles).endTime
         THEN Some(Head(subtitles))
         ELSE currentSub(Tail(subtitles), videoTime)

(* Subtitle lists looked up in SpecResolver: unsorted, overlapping,       *)
(* sharing boundaries, with an entry that ends before it starts.           *)
ResolverEntries ==
    { TimedSub("a", 0, 2), TimedSub("b", 2, 4), TimedSub("c", 1, 3), TimedSub("d", 5, 4) }

ResolverLists ==
    UNION { [1..n -> ResolverEntries] : n \in 0..MaxResolverLen }

ResolverTimes == 0..MaxResolverTime

(* One render of the live view and one frame of the export at the same    *)
(* time on the same list.                                                  *)
Resolve(subtitles, t) ==
    /\ resolved' = Some([t |-> t, subs |-> subtitles, live |-> activeSub(subtitles, t),
                         export |-> currentSub(subtitles, t)])
    /\ UNCHANGED <<queue, currentIndex, isDrawing, errorMsg, crashed, editorVars, pipes,
                   srtPending, g, dragCommits, exp, run, retry, now, srt, cue, frame>>

NextResolver == \E subtitles \in ResolverLists : \E t \in ResolverTimes : Resolve(subtitles, t)

SpecResolver == Init /\ [][NextResolver]_vars

(* The text overlay of one export frame. Regions are compared by        *)
(* identity in the source (region === mainBlur); here a region is named by  *)
(* its index in blurRegions and mainBlur is an index, 0 standing for null.  *)

(* reduce with the comparison turned round: the region of least y. *)
RECURSIVE reduceLeastY(_, _, _)
reduceLeastY(blurRegions, prev, current) ==
    IF current > Len(blurRegions) THEN prev
    ELSE reduceLeastY(blurRegions,
                        IF blurRegions[prev].y < blurRegions[current].y THEN prev ELSE current,
                        current + 1)

(* blurRegions.reduce((prev, current) => (prev.y > current.y ? prev :     *)
(* current)) from the accumulator prev and the element current on.          *)
RECURSIVE reduceMainBlur(_, _, _)
reduceMainBlur(blurRegions, prev, current) ==
    IF current > Len(blurRegions) THEN prev
    ELSE reduceMainBlur(blurRegions,
                        IF blurRegions[prev].y > blurRegions[current].y THEN prev ELSE current,
                        current + 1)

(* mainBlur: null for an empty list, else the reduce started on the first  *)
(* element.                                                                 *)
mainBlur(blurRegions) ==
    IF Len(blurRegions) > 0 THEN reduceMainBlur(blurRegions, 1, 2) ELSE 0

(* currentSub.translatedText || currentSub.originalText *)
OverlayText(sub) == IF sub.translatedText # "" THEN sub.translatedText ELSE sub.originalText

(* The forEach of renderFrame: for each region, the text stroked and       *)
(* filled on it, Null when none is.                                         *)
FrameTexts(blurRegions, subtitles, videoTime) ==
    [i \in DOMAIN blurRegions |->
        LET sub == currentSub(subtitles, videoTime)
        IN  IF sub # Null /\ i = mainBlur(blurRegions) THEN Some(OverlayText(sub[1])) ELSE Null]

(* Regions and subtitles of SpecFrame: regions at three heights, subtitles *)
(* with and without a translation.                                          *)
FrameRegions == { Region(40, y, 120, 60) : y \in {0, 160, 320} }

FrameRegionLists == UNION { [1..n -> FrameRegions] : n \in 0..MaxFrameRegions }

FrameSubs ==
    { [TimedSub("a", 0, 1) EXCEPT !.translatedText = "t"],
      [TimedSub("b", 1, 2) EXCEPT !.originalText = "p"] }

FrameSubLists == UNION { [1..n -> FrameSubs] : n \in 0..MaxFrameSubs }

(* One frame of an export with the closure's blurRegions and subtitles at  *)
(* the video position videoTime.                                            *)
Composite(blurRegions, subtitles, videoTime) ==
    /\ frame' = Some([regions |-> blurRegions, subs |-> subtitles, t |-> videoTime,
                      texts |-> FrameTexts(blurRegions, subtitles, videoTime)])
    /\ UNCHANGED <<queue, currentIndex, isDrawing, errorMsg, crashed, editorVars, pipes,
                   srtPending, g, dragCommits, resolved, exp, run, retry, now, srt, cue>>

NextFrame ==
    \E blurRegions \in FrameRegionLists : \E subtitles \in FrameSubLists :
        \E videoTime \in 0..MaxFrameTime : Composite(blurRegions, subtitles, videoTime)

SpecFrame == Init /\ [][NextFrame]_vars

(* The audio cue effect, continued. *)

(* HTMLMediaElement.src of an element made by new Audio(url): the url     *)
(* parsed and serialized again.  The urls are the `data:audio/wav;base64,` *)
(* strings of pcmToWav, which serialize to themselves.                      *)
SrcOf(a, k) == a.elements[k].src

(* !activeSub || !activeSub.audioUrl: undefined ("none") and "" are falsy. *)
NoCue(sub) == sub = Null \/ sub[1].audioUrl \in {"none", ""}

(* pause() without effect. *)
PauseIgnored(a, k) == a

(* HTMLMediaElement.pause() on element k. *)
Pause(a, k) == [a EXCEPT !.elements[k].paused = TRUE]

(* The first branch with the pause and the assignment of null left out. *)
StopAndClearLeaves(a) == a

(* if (activeAudio.current) { activeAudio.current.pause();                *)
(* activeAudio.current = null; } *)
StopAndClear(a) ==
    IF a.activeAudio # Null
    THEN [Pause(a, a.activeAudio[1]) EXCEPT !.activeAudio = Null]
    ELSE a

(* The comparison of the sources answered with false every time. *)
SameSourceNever(a, url) == FALSE

(* activeAudio.current?.src === activeSub.audioUrl *)
SameSource(a, url) == a.activeAudio # Null /\ SrcOf(a, a.activeAudio[1]) = url

(* A new element made at every lookup, the cache entry overwritten. *)
FetchOrCreateAlwaysNew(a, url) ==
    [a EXCEPT !.elements = Append(@, Audio(url)),
              !.audioCache = [u \in DOMAIN a.audioCache \cup {url} |-> Len(a.elements) + 1]]

(* let audio = audioCache.current.get(url); if (!audio) { audio = new     *)
(* Audio(url); audioCache.current.set(url, audio); }: the element is        *)
(* audioCache[url] of the result.                                          *)
FetchOrCreate(a, url) ==
    IF url \in DOMAIN a.audioCache THEN a
    ELSE [a EXCEPT !.elements = Append(@, Audio(url)),
                   !.audioCache = [u \in DOMAIN a.audioCache \cup {url} |->
                                      IF u = url THEN Len(a.elements) + 1 ELSE a.audioCache[u]]]

(* audio.currentTime = 0; audio.play().catch(() => {}): play() clears the *)
(* paused flag; when its promise is rejected (started = FALSE) the element  *)
(* is left paused and the rejection is dropped.                             *)
PlayFromStart(a, k, started) ==
    [a EXCEPT !.elements[k].currentTime = 0, !.elements[k].paused = ~started]

(* One run of the effect on the refs a, with the lookup's result sub and   *)
(* the outcome of play().                                                   *)
audioCueEffect(a, sub, started) ==
    IF NoCue(sub) THEN StopAndClear(a)
    ELSE IF SameSource(a, sub[1].audioUrl) THEN a
    ELSE LET url == sub[1].audioUrl
             stopped == IF a.activeAudio # Null THEN Pause(a, a.activeAudio[1]) ELSE a
             fetched == FetchOrCreate(stopped, url)
             k == fetched.audioCache[url]
         IN  [PlayFromStart(fetched, k, started) EXCEPT !.activeAudio = Some(k)]

(* The subtitle of the latest run is the subtitle of this one, with the    *)
(* same audioUrl.                                                           *)
StillActive(a, sub) ==
    /\ a.sub # Null /\ sub # Null
    /\ a.sub[1].id = sub[1].id /\ a.sub[1].audioUrl = sub[1].audioUrl

(* Subtitles of SpecAudio: two voiced ones that share a boundary, the      *)
(* first of them voiced anew, one without an audioUrl property and one      *)
(* whose audioUrl is "".                                                    *)
VoicedSub(id, startTime, endTime, audioUrl) ==
    [TimedSub(id, startTime, endTime) EXCEPT !.audioUrl = audioUrl]

AudioEntries ==
    { VoicedSub("a", 0, 1, "wav-a"), VoicedSub("b", 1, 2, "wav-b"),
      VoicedSub("a", 0, 1, "wav-c"),
      VoicedSub("c", 0, 0, "none"), VoicedSub("d", 2, 2, "") }

AudioLists == UNION { [1..n -> AudioEntries] : n \in 0..MaxAudioLen }

(* A render with the props subtitles and currentTime, then the effect;     *)
(* starts counts the play() calls since the active subtitle last changed.   *)
TimeUpdate(subtitles, currentTime, started) ==
    LET sub == activeSub(subtitles, currentTime)
        after == audioCueEffect(cue, sub, started)
        before == IF StillActive(cue, sub) THEN cue.starts ELSE 0
    IN  /\ Len(after.elements) <= MaxElements
        /\ cue' = [after EXCEPT !.event = "update", !.sub = sub,
                                !.starts = IF NoCue(sub) \/ SameSource(cue, sub[1].audioUrl)
                                           THEN before ELSE before + 1]
        /\ UNCHANGED <<queue, currentIndex, isDrawing, errorMsg, crashed, editorVars, pipes,
                       srtPending, g, dragCommits, resolved, exp, run, retry, now, srt, frame>>

(* Playback of element k goes on by one unit; at the end of the clip the   *)
(* element pauses itself.                                                   *)
ClipPlays(k) ==
    /\ k \in DOMAIN cue.elements
    /\ ~cue.elements[k].paused
    /\ cue' = [cue EXCEPT !.event = "plays",
                              !.elements[k].currentTime = @ + 1,
                              !.elements[k].paused = (cue.elements[k].currentTime + 1 >= ClipLength)]
    /\ UNCHANGED <<queue, currentIndex, isDrawing, errorMsg, crashed, editorVars, pipes,
                   srtPending, g, dragCommits, resolved, exp, run, retry, now, srt, frame>>

(* SpecAudio: the audio cue effect under time updates and subtitle list   *)
(* changes, with the clips playing in between.                              *)
NextAudio ==
    \/ \E subtitles \in AudioLists : \E currentTime \in 0..MaxAudioTime : \E started \in BOOLEAN :
           TimeUpdate(subtitles, currentTime, started)
    \/ \E k \in 1..MaxElements : ClipPlays(k)

SpecAudio == Init /\ [][NextAudio]_vars

-----------------------------------------------------------------------------
(* Properties. *)

(* C1: in every reachable state every queue item has a non-empty history   *)
(* and a cursor that is an index of it: 0 <= historyIndex <=               *)
(* history.length - 1.                                                     *)
HistoryCursorInRange ==
    \A i \in DOMAIN queue :
        /\ Len(queue[i].history) >= 1
        /\ queue[i].historyIndex >= 0
        /\ queue[i].historyIndex <= Len(queue[i].history) - 1

(* two commits, then undo twice: the cursor is back on the first snapshot *)
CursorBackAtFirst ==
    /\ g.ops = <<"undo">>
    /\ \E i \in DOMAIN queue : Len(queue[i].history) = 3 /\ queue[i].historyIndex = 0

SnapshotAtCursorIsCurrent == \A i \in DOMAIN queue : AtCursor(queue[i]) = Pair(queue[i])

CommitTruncates ==
    [][\A i \in DOMAIN queue :
          (i \in DOMAIN queue' /\ queue'[i].history # queue[i].history) =>
              LET h == queue[i].history
                  h2 == queue'[i].history
                  idx == queue[i].historyIndex
              IN  /\ queue'[i].historyIndex = Len(h2) - 1
                  /\ h2[Len(h2)] = Pair(queue'[i])
                  /\ SubSeq(h2, 1, Len(h2) - 1) =
                        SubSeq(h, IF idx + 1 >= HistoryCap THEN 2 ELSE 1, idx + 1)]_vars

(* a commit made with the cursor before the last snapshot *)
CommittedAfterUndo ==
    /\ g.ops = <<"commit">>
    /\ g.preIdx < g.preLen - 1
    /\ Len(queue[g.item + 1].history) = g.preIdx + 2

(* C6: no item's history is ever longer than the cap. *)
HistoryWithinCap == \A i \in DOMAIN queue : Len(queue[i].history) <= HistoryCap

(* a commit made on a full history, which is still full *)
CommittedOnFullHistory ==
    /\ g.ops = <<"commit">>
    /\ g.preLen = HistoryCap
    /\ Len(queue[g.item + 1].history) = HistoryCap

(* C7: a step that changes a history which is at the cap with the cursor   *)
(* on its last snapshot drops the oldest snapshot, keeps the others in     *)
(* their order, appends the new pair and leaves the cursor on it.          *)
CommitAtCapEvictsOldest ==
    [][\A i \in DOMAIN queue :
          (/\ i \in DOMAIN queue'
           /\ Len(queue[i].history) = HistoryCap
           /\ queue[i].historyIndex = HistoryCap - 1
           /\ queue'[i].history # queue[i].history) =>
              /\ queue'[i].history = Append(Tail(queue[i].history), Pair(queue'[i]))
              /\ queue'[i].historyIndex = HistoryCap - 1]_vars

(* a commit made at the cap with the cursor on the last snapshot *)
CommittedAtCapFromLast ==
    /\ g.ops = <<"commit">>
    /\ g.preLen = HistoryCap
    /\ g.preIdx = HistoryCap - 1
    /\ queue[g.item + 1].historyIndex = HistoryCap - 1

(* C8: a step that runs the commit routine of an item and leaves the       *)
(* item's (subtitles, regions) pair as it was leaves its history and its   *)
(* cursor as they were.                                                    *)
IdenticalCommitIsNoOp ==
    [][\A i \in DOMAIN queue :
          (/\ i \in DOMAIN queue'
           /\ g'.item = i - 1
           /\ g'.ops \in {<<"same">>, <<"commit">>}
           /\ Pair(queue'[i]) = Pair(queue[i])) =>
              /\ queue'[i].history = queue[i].history
              /\ queue'[i].historyIndex = queue[i].historyIndex]_vars

(* a value-identical commit on an item whose history has grown *)
IdenticalCommitHappened ==
    /\ g.ops = <<"same">>
    /\ g.item >= 0 /\ g.item < Len(queue)
    /\ Len(queue[g.item + 1].history) >= 2

(* C9: undo with the cursor on the first snapshot and redo with the cursor *)
(* on the last one change nothing; otherwise they move the cursor by one,  *)
(* set the current pair to the snapshot now at the cursor and leave every  *)
(* history as it was.                                                      *)
UndoRedoFrame ==
    [][/\ undo =>
            IF ~HasActive \/ activeVideo.historyIndex <= 0
            THEN queue' = queue
            ELSE /\ \A i \in DOMAIN queue : i # currentIndex + 1 => queue'[i] = queue[i]
                 /\ queue'[currentIndex + 1].history = activeVideo.history
                 /\ queue'[currentIndex + 1].historyIndex = activeVideo.historyIndex - 1
                 /\ Pair(queue'[currentIndex + 1]) = activeVideo.history[activeVideo.historyIndex]
       /\ redo =>
            IF ~HasActive \/ activeVideo.historyIndex >= Len(activeVideo.history) - 1
            THEN queue' = queue
            ELSE /\ \A i \in DOMAIN queue : i # currentIndex + 1 => queue'[i] = queue[i]
                 /\ queue'[currentIndex + 1].history = activeVideo.history
                 /\ queue'[currentIndex + 1].historyIndex = activeVideo.historyIndex + 1
                 /\ Pair(queue'[currentIndex + 1]) =
                        activeVideo.history[activeVideo.historyIndex + 2]]_vars

(* a redo from the first snapshot of three: the cursor is in the middle *)
RedoneToTheMiddle ==
    /\ g.ops = <<"redo">>
    /\ Len(queue[g.item + 1].history) = 3
    /\ queue[g.item + 1].historyIndex = 1

(* a region lies in the frame and is no smaller than the threshold *)
InFrame(region) ==
    /\ region.x >= 0 /\ region.x <= Full
    /\ region.y >= 0 /\ region.y <= Full
    /\ region.width >= MinSize /\ region.width <= Full
    /\ region.height >= MinSize /\ region.height <= Full

(* C10: after draw, move, resize and remove gestures with the pointer      *)
(* inside the frame, every region of every list and of every snapshot has  *)
(* x, y, width and height within [0, 100] and width and height of at least *)
(* 0.5.                                                                    *)
RegionsWithinFrame ==
    \A i \in DOMAIN queue :
        /\ \A r \in DOMAIN queue[i].blurRegions : InFrame(queue[i].blurRegions[r])
        /\ \A k \in DOMAIN queue[i].history :
              \A r \in DOMAIN queue[i].history[k].blurRegions :
                  InFrame(queue[i].history[k].blurRegions[r])

(* a region resized down to the floor and then moved against the right    *)
(* and bottom edges                                                        *)
FloorRegionAtEdge ==
    \E i \in DOMAIN queue : \E r \in DOMAIN queue[i].blurRegions :
        /\ queue[i].blurRegions[r].width = ResizeFloor
        /\ queue[i].blurRegions[r].x = Full - ResizeFloor
        /\ queue[i].blurRegions[r].y = Full - ResizeFloor

(* the indices of the entries of subs whose closed interval holds t *)
MatchesAt(subs, t) == { i \in DOMAIN subs : subs[i].startTime <= t /\ t <= subs[i].endTime }

(* C11: the lookup at time t returns the entry of least index whose        *)
(* interval [startTime, endTime], both ends included, holds t, and nothing *)
(* when no interval holds t; the export's lookup returns the same as the   *)
(* live view's.                                                            *)
ResolverFirstMatch ==
    resolved # Null =>
        LET r == resolved[1]
            m == MatchesAt(r.subs, r.t)
        IN  /\ m = {} => r.live = Null
            /\ m # {} => \E i \in m : /\ \A j \in m : i <= j
                                      /\ r.live = Some(r.subs[i])
            /\ r.export = r.live

(* the list [a: 0..2, b: 2..4] looked up at the shared boundary 2 gives a *)
ResolvedSharedBoundary ==
    /\ resolved # Null
    /\ resolved[1].subs = <<TimedSub("a", 0, 2), TimedSub("b", 2, 4)>>
    /\ resolved[1].t = 2
    /\ resolved[1].live = Some(TimedSub("a", 0, 2))

(* C12: under fair delivery of its timers, animation frames and recorder  *)
(* events a started export ends; when it has ended the recorder has been   *)
(* stopped exactly once and is inactive, and the video is back at the      *)
(* position it had when the export was entered.                            *)
ExportTerminates ==
    /\ [](exp.phase \in {"sleep", "raf", "stopping"} => <>(exp.phase = "done"))
    /\ [](exp.stops <= 1)
    /\ [](exp.phase \in {"stopping", "done"} =>
             /\ exp.stops = 1
             /\ exp.recorder = "inactive"
             /\ exp.videoTime = exp.before[1].video.currentTime)

(* an export of two frames that ended with the video back at a later      *)
(* position                                                                *)
ExportedTwoFrames ==
    /\ exp.phase = "done"
    /\ Len(exp.log) >= 6
    /\ exp.before[1].video.currentTime > 0
    /\ exp.videoTime = exp.before[1].video.currentTime

(* C13: the frames of an export are composited one after the other: each  *)
(* frame draws, overlays and reports at one sampled time, the first at 0   *)
(* and every next one a frame step later, and at every await of the export *)
(* the last frame is complete.                                             *)
FramesInOrder ==
    /\ \A i \in DOMAIN exp.log :
          /\ i = 1 => exp.log[i].op = "draw" /\ exp.log[i].t = 0
          /\ (i > 1 /\ exp.log[i].op = "draw") =>
                /\ exp.log[i - 1].op = "report"
                /\ exp.log[i].t = exp.log[i - 1].t + FrameStep
          /\ exp.log[i].op # "draw" =>
                /\ i > 1
                /\ exp.log[i - 1].op \in {"draw", "overlay"}
                /\ exp.log[i].t = exp.log[i - 1].t
    /\ exp.log # <<>> => exp.log[Len(exp.log)].op = "report"

(* the second frame of an export, composited one step after the first *)
SecondFrameComposited ==
    /\ Len(exp.log) = 6
    /\ exp.log[4] = [op |-> "draw", t |-> FrameStep]
    /\ exp.log[5].op = "overlay"

(* C14: an export entered without a video element or without a drawing    *)
(* context fails before capture starts: no recorder is started, no frame   *)
(* is composited, the video keeps its paused flag and its position.        *)
ExportFailsBeforeCapture ==
    (exp.before # Null /\ (~exp.before[1].ready \/ ~exp.before[1].ctxOk)) =>
        /\ exp.phase = "failed"
        /\ exp.recorder = "none"
        /\ exp.stops = 0
        /\ exp.log = <<>>
        /\ exp.paused = exp.before[1].video.paused
        /\ exp.videoTime = exp.before[1].video.currentTime

(* an export that failed for want of a context on a playing video *)
ExportFailedOnPlayingVideo ==
    /\ exp.phase = "failed"
    /\ exp.before[1].ready /\ ~exp.before[1].ctxOk
    /\ ~exp.before[1].video.paused
    /\ exp.before[1].video.currentTime > 0

(* C15: a failed export ends its item in ERROR with the message shown; the *)
(* item is not left in EXPORTING.                                          *)
FailedExportEndsInError ==
    exp.phase = "failed" =>
        /\ queue[exp.index + 1].status = "ERROR"
        /\ errorMsg # ""

Eligible(seen, upto) ==
    SelectSeq([k \in 1..upto |-> k - 1], LAMBDA i : seen[i + 1].status \in {"IDLE", "ERROR"})

(* C16: a run over the queue goes on past an item that fails or has no    *)
(* region: while it waits it has called processVideo on every item up to   *)
(* the current one that was IDLE or ERROR when the run began, and it waits *)
(* on a live invocation; when it has ended it has called processVideo on   *)
(* every such item of the queue.                                           *)
RunAllGoesOn ==
    /\ run.phase = "done" => run.processed = Eligible(run.seen, Len(run.seen))
    /\ run.phase = "awaiting" =>
          /\ run.i < Len(run.seen)
          /\ run.processed = Eligible(run.seen, run.i + 1)
          /\ \E k \in DOMAIN pipes : pipes[k].caller = "runAll" /\ pipes[k].index = run.i

(* a run over three idle items: the first failed remotely, the second had *)
(* no region, the third is being processed                                 *)
RunPassedTwoFailures ==
    /\ run.phase = "awaiting"
    /\ Len(run.seen) = 3
    /\ run.processed = <<0, 1, 2>>
    /\ queue[1].status = "ERROR"
    /\ run.seen[2].blurRegions = <<>>
    /\ queue[3].status \in Processing

(* C18: withRetry calls fn at most maxRetries times; it returns the      *)
(* result of the first call that succeeds, every call before it having     *)
(* failed and none following it; and when maxRetries calls have failed     *)
(* with rate-limit or server errors it throws the last of them.            *)
RetryBounded ==
    /\ retry.attempts <= retry.maxRetries
    /\ retry.phase = "returned" =>
          /\ retry.result # Null
          /\ retry.attempts = Len(retry.errors) + 1
    /\ retry.phase \in {"idle", "calling", "sleeping", "thrown"} => retry.result = Null
    /\ (/\ retry.phase = "thrown"
        /\ retry.errors # <<>>
        /\ \A j \in DOMAIN retry.errors : retry.errors[j].kind \in {"rate", "server"}) =>
          /\ retry.attempts = retry.maxRetries
          /\ Len(retry.errors) = retry.maxRetries
          /\ retry.thrown = Some(retry.errors[Len(retry.errors)])

(* three calls failed, a rate limit then two server errors, and the last  *)
(* error was thrown                                                        *)
RetriesExhausted ==
    /\ retry.phase = "thrown"
    /\ retry.maxRetries = 3
    /\ retry.attempts = 3
    /\ retry.errors[1].kind = "rate"
    /\ retry.errors[2].status = 500
    /\ retry.thrown = Some(Err("server", 503, FALSE, FALSE))

(* C19: a failure that is neither a rate limit nor a server error is      *)
(* thrown to the caller at once: it is the last failure of the call, no    *)
(* sleep and no further call of fn follow it.                              *)
OnlyRetryableRetried ==
    \A j \in DOMAIN retry.errors :
        retry.errors[j].kind \notin {"rate", "server"} =>
            /\ retry.phase = "thrown"
            /\ j = Len(retry.errors)
            /\ retry.thrown = Some(retry.errors[j])
            /\ retry.waits = j - 1

(* C20: the ids of the subtitles of one item are pairwise distinct. *)
SubtitleIdsDistinct ==
    \A n \in DOMAIN queue :
        \A i, j \in DOMAIN queue[n].subtitles :
            i # j => queue[n].subtitles[i].id # queue[n].subtitles[j].id

(* C21: serializing a list, parsing the result and serializing again     *)
(* gives the first serialization: as many entries, the same timestamps,    *)
(* the same texts.                                                         *)
SrtRoundTrip == srt # Null => srt[1].again = srt[1].first

(* C22: a snapshot in a history keeps its content: a step leaves the     *)
(* history of an item as it is, or appends one snapshot to the snapshots   *)
(* up to the cursor (less the oldest at the cap); no snapshot that stays   *)
(* is changed.                                                             *)
SnapshotsImmutable ==
    [][\A i \in DOMAIN queue \cap DOMAIN queue' :
          LET h == queue[i].history
              after == queue'[i].history
              kept == Slice(h, queue[i].historyIndex + 1)
          IN  \/ after = h
              \/ SubSeq(after, 1, Len(after) - 1) =
                    IF Len(kept) >= HistoryCap THEN Tail(kept) ELSE kept]_vars

(* two different snapshots after the initial one, the cursor back on the  *)
(* first of them                                                           *)
SnapshotsOutliveUndo ==
    \E i \in DOMAIN queue :
        /\ Len(queue[i].history) = 3
        /\ queue[i].historyIndex = 1
        /\ queue[i].history[2] # queue[i].history[3]
        /\ Pair(queue[i]) = queue[i].history[2]

PointerUpReturnsToIdle ==
    [][handleMouseUp =>
          /\ startPos' = Null
          /\ currentDrag' = Null
          /\ editAction' = "none"
          /\ editingIdx' = editingIdx]_vars

(* C25: draw-mode is never on together with a move or resize action. *)
NoEditActionInDrawMode == ~(isDrawing /\ editAction # "none")

(* the editor holds a move (resize) action on a region of the active item *)
Editing(action) ==
    /\ HasActive /\ editAction = action /\ editingIdx # Null
    /\ editingIdx[1] + 1 \in DOMAIN activeVideo.blurRegions
    /\ action = "move" => dragOffset # Null

(* C26: a pointer-move while a region is being moved sets that region's    *)
(* origin to the pointer minus the recorded offset, clamped to              *)
(* 0 <= x <= 100 - width and 0 <= y <= 100 - height, and leaves its width   *)
(* and height and every other region as they were.                          *)
MoveSetsClampedOrigin ==
    [][\A p \in EditPointers :
          (Editing("move") /\ handleMouseMove(p)) =>
              LET before == activeVideo.blurRegions
                  after == activeVideo'.blurRegions
                  k == editingIdx[1] + 1
                  wantX == p.x - dragOffset[1].x
                  wantY == p.y - dragOffset[1].y
                  maxX == Full - before[k].width
                  maxY == Full - before[k].height
              IN  /\ Len(after) = Len(before)
                  /\ after[k].x = (IF wantX < 0 THEN 0 ELSE IF wantX > maxX THEN maxX ELSE wantX)
                  /\ after[k].y = (IF wantY < 0 THEN 0 ELSE IF wantY > maxY THEN maxY ELSE wantY)
                  /\ after[k].width = before[k].width
                  /\ after[k].height = before[k].height
                  /\ \A j \in DOMAIN before : j # k => after[j] = before[j]]_vars

(* the first of two regions, grabbed away from its corner, was moved and   *)
(* stopped by the right edge while the second region stayed                 *)
MovedAgainstEdge ==
    /\ HasActive /\ editAction = "move" /\ dragOffset = Some(Pos(120, 60))
    /\ Len(activeVideo.blurRegions) = 2
    /\ activeVideo.blurRegions[1] = Region(280, 340, 120, 60)
    /\ activeVideo.blurRegions[2] = Region(160, 380, 240, 20)

(* C27: a pointer-move while a region is being resized sets that region's  *)
(* width and height to the pointer minus the origin, no less than 1 on     *)
(* each axis, and leaves its origin and every other region as they were.   *)
ResizeSetsFlooredSize ==
    [][\A p \in EditPointers :
          (Editing("resize") /\ handleMouseMove(p)) =>
              LET before == activeVideo.blurRegions
                  after == activeVideo'.blurRegions
                  k == editingIdx[1] + 1
                  wantW == p.x - before[k].x
                  wantH == p.y - before[k].y
              IN  /\ Len(after) = Len(before)
                  /\ after[k].width = (IF wantW < ResizeFloor THEN ResizeFloor ELSE wantW)
                  /\ after[k].height = (IF wantH < ResizeFloor THEN ResizeFloor ELSE wantH)
                  /\ after[k].x = before[k].x
                  /\ after[k].y = before[k].y
                  /\ \A j \in DOMAIN before : j # k => after[j] = before[j]]_vars

(* the second of two regions was resized with the pointer left of and      *)
(* above its origin, down to the floor, while the first region stayed       *)
ResizedToFloor ==
    /\ HasActive /\ editAction = "resize" /\ editingIdx = Some(1)
    /\ Len(activeVideo.blurRegions) = 2
    /\ activeVideo.blurRegions[1] = Region(40, 320, 120, 60)
    /\ activeVideo.blurRegions[2] = Region(160, 380, ResizeFloor, ResizeFloor)

(* C28: a run of the effect in which no subtitle is active, or the active *)
(* subtitle has no audioUrl, leaves no element recorded as current and      *)
(* every element paused, the one that was current included, each where it   *)
(* was.                                                                     *)
NoCueStopsAndClears ==
    [][(cue'.event = "update" /\ NoCue(cue'.sub)) =>
          /\ cue'.activeAudio = Null
          /\ Len(cue'.elements) = Len(cue.elements)
          /\ \A k \in DOMAIN cue.elements :
                cue'.elements[k] = [cue.elements[k] EXCEPT !.paused = TRUE]]_vars

(* a clip stopped half way by a run that found nothing to play *)
ClipStoppedHalfWay ==
    /\ cue.event = "update" /\ NoCue(cue.sub) /\ cue.activeAudio = Null
    /\ \E k \in DOMAIN cue.elements :
          cue.elements[k].paused /\ cue.elements[k].currentTime = 1

(* C29: a run of the effect in which the active subtitle's audioUrl is    *)
(* the source of the current element changes nothing: no element is         *)
(* paused, started or rewound, the current element and the cache stay; and  *)
(* play() is called at most once while one subtitle stays active.           *)
SameSourceIsNoOp ==
    [][(/\ cue'.event = "update" /\ ~NoCue(cue'.sub)
        /\ cue.activeAudio # Null
        /\ cue.elements[cue.activeAudio[1]].src = cue'.sub[1].audioUrl) =>
            /\ cue'.elements = cue.elements
            /\ cue'.activeAudio = cue.activeAudio
            /\ cue'.audioCache = cue.audioCache
            /\ cue'.starts = (IF StillActive(cue, cue'.sub) THEN cue.starts ELSE 0)
            /\ cue'.starts <= 1]_vars

(* a run on the subtitle whose clip is playing and has advanced *)
PlayingClipLeftAlone ==
    /\ cue.event = "update" /\ ~NoCue(cue.sub) /\ cue.starts = 1 /\ cue.activeAudio # Null
    /\ cue.elements[cue.activeAudio[1]].src = cue.sub[1].audioUrl
    /\ ~cue.elements[cue.activeAudio[1]].paused
    /\ cue.elements[cue.activeAudio[1]].currentTime = 1

(* C30: a run of the effect in which the active subtitle's audioUrl is    *)
(* not the source of the current element pauses the current element, takes  *)
(* the element of that audioUrl from the cache, making and caching one only *)
(* if there is none, so that no two elements have the same source, rewinds  *)
(* it and plays it; it is the current element whether or not play()         *)
(* succeeds, and the failure changes neither errorMsg nor the render.       *)
NewSourceStopsThenStarts ==
    [][(/\ cue'.event = "update" /\ ~NoCue(cue'.sub)
        /\ cue.activeAudio # Null =>
              cue.elements[cue.activeAudio[1]].src # cue'.sub[1].audioUrl) =>
            LET url == cue'.sub[1].audioUrl
                had == { k \in DOMAIN cue.elements : cue.elements[k].src = url }
                k == cue'.activeAudio[1]
            IN  /\ cue'.activeAudio # Null
                /\ cue'.elements[k].src = url
                /\ cue'.elements[k].currentTime = 0
                /\ cue.activeAudio # Null =>
                      cue'.elements[cue.activeAudio[1]] =
                          [cue.elements[cue.activeAudio[1]] EXCEPT !.paused = TRUE]
                /\ had # {} => k \in had /\ Len(cue'.elements) = Len(cue.elements)
                /\ had = {} => k = Len(cue.elements) + 1 /\ Len(cue'.elements) = k
                /\ cue'.audioCache[url] = k
                /\ \A i, j \in DOMAIN cue'.elements :
                      i # j => cue'.elements[i].src # cue'.elements[j].src
                /\ \A i \in DOMAIN cue.elements :
                      (i # k /\ cue.activeAudio # Some(i)) => cue'.elements[i] = cue.elements[i]
                /\ errorMsg' = errorMsg /\ crashed' = crashed]_vars

(* the clip of "a" taken from the cache again after the clip of "b", its  *)
(* play() rejected, with it recorded as current                             *)
CachedClipFailedToStart ==
    /\ cue.event = "update" /\ Len(cue.elements) = 2
    /\ cue.sub # Null /\ cue.activeAudio = Some(1)
    /\ cue.elements[1] = [src |-> "wav-a", paused |-> TRUE, currentTime |-> 0]
    /\ cue.elements[2].src = "wav-b" /\ cue.elements[2].paused /\ cue.elements[2].currentTime = 1
    /\ cue.starts = 1

(* C31: in a composited frame a region carries text only if a subtitle  *)
(* is active at the frame's time and no region has a greater y; at most    *)
(* one region carries text; the text is the subtitle's translatedText, or  *)
(* its originalText when the translatedText is empty.                      *)
TextOnPrimaryRegionOnly ==
    frame # Null =>
        LET f == frame[1]
            m == MatchesAt(f.subs, f.t)
            lit == { i \in DOMAIN f.texts : f.texts[i] # Null }
        IN  /\ Cardinality(lit) <= 1
            /\ \A i \in lit :
                  /\ m # {}
                  /\ \A j \in DOMAIN f.regions : f.regions[j].y <= f.regions[i].y
                  /\ \E k \in m :
                        /\ \A l \in m : k <= l
                        /\ f.texts[i] = Some(IF f.subs[k].translatedText = ""
                                             THEN f.subs[k].originalText
                                             ELSE f.subs[k].translatedText)

(* a frame with two regions at the greatest y and an untranslated subtitle *)
(* active: its original text is on the later of the two                     *)
UntranslatedTextOnLaterOfTwo ==
    /\ frame # Null
    /\ Len(frame[1].regions) = 3
    /\ frame[1].regions[1].y = 320 /\ frame[1].regions[2].y = 320 /\ frame[1].regions[3].y = 0
    /\ frame[1].texts = <<Null, Some("p"), Null>>

(* C32: every region of every item whose coordinates are numbers lies    *)
(* inside the frame: x + width <= 100 and y + height <= 100.                *)
RegionsInsideFrame ==
    \A i \in DOMAIN queue : \A r \in DOMAIN queue[i].blurRegions :
        LET region == queue[i].blurRegions[r]
        IN  (IsNum(region.x) /\ IsNum(region.width) /\ IsNum(region.y) /\ IsNum(region.height)) =>
                /\ region.x + region.width <= Full
                /\ region.y + region.height <= Full

(* C33: while the interface is rendered, the selected region index is   *)
(* none or an index of the active item's region list.                       *)
SelectedIndexValid ==
    (~crashed /\ editingIdx # Null) =>
        /\ HasActive
        /\ editingIdx[1] >= 0
        /\ editingIdx[1] < Len(activeVideo.blurRegions)

(* C34: the active-item index is -1 or an index of the queue. *)
ActiveIndexValid == currentIndex = -1 \/ (currentIndex >= 0 /\ currentIndex < Len(queue))

(* C35: no two processVideo invocations in flight are for the same queue *)
(* item.                                                                    *)
OnePipelinePerItem ==
    \A j, k \in DOMAIN pipes : j # k => pipes[j].index # pipes[k].index

(* C36: when the loop of a runAll that was awaiting an earlier item goes *)
(* on to item i and calls processVideo for it, the item's status is then    *)
(* IDLE or ERROR, the call is rejected for want of a region exactly when    *)
(* the item then has no region, and a call that starts the pipeline         *)
(* captures the subtitles the item then has.                                *)
RunAllSeesCurrentItem ==
    [][(run.phase = "awaiting" /\ Len(run'.processed) > Len(run.processed)) =>
          \A n \in (Len(run.processed) + 1)..Len(run'.processed) :
              LET i == run'.processed[n]
                  started == { k \in DOMAIN pipes' :
                                  pipes'[k].index = i /\ pipes'[k].caller = "runAll"
                                  /\ pipes'[k].phase = "extract" }
              IN  /\ i < Len(queue)
                  /\ queue[i + 1].status \in {"IDLE", "ERROR"}
                  /\ (Len(queue[i + 1].blurRegions) = 0) <=> (started = {})
                  /\ \A k \in started : pipes'[k].captured = queue[i + 1].subtitles]_vars

(* C37: at most one Audio element is playing after every step, and in   *)
(* a step in which an element starts playing every other element is         *)
(* paused, the one that was current included.                               *)
OneClipAtATime ==
    [][/\ Cardinality({ k \in DOMAIN cue'.elements : ~cue'.elements[k].paused }) <= 1
       /\ \A k \in DOMAIN cue'.elements :
             (/\ ~cue'.elements[k].paused
              /\ (k \in DOMAIN cue.elements => cue.elements[k].paused)) =>
                 /\ cue'.activeAudio = Some(k)
                 /\ \A j \in DOMAIN cue'.elements : j # k => cue'.elements[j].paused]_vars

(* the second clip playing as the current one, the first stopped half way *)
SecondClipTookOver ==
    /\ Len(cue.elements) = 2 /\ cue.activeAudio = Some(2)
    /\ ~cue.elements[2].paused
    /\ cue.elements[1].paused /\ cue.elements[1].currentTime = 1

(* C38: withRetry sleeps only between two calls of fn: when it has       *)
(* returned or thrown it has slept once less than it has called fn, and     *)
(* while it sleeps another call is still permitted.                         *)
WaitsOnlyBetweenAttempts ==
    /\ retry.phase \in {"returned", "thrown"} => retry.waits = retry.attempts - 1
    /\ retry.phase = "sleeping" => retry.attempts < retry.maxRetries

=====
